---- MODULE Spec2Model ----
(***************************************************************************)
(* Model of the multi-source trade ingestion pipeline:                     *)
(*   - the dedup stores of the connectors (user WS, market WS, REST poll,  *)
(*     Ethereum 1h activity poll),                                         *)
(*   - the correlation / merge engine (mergeTrades, both variants),        *)
(*   - the live-feed connection lifecycle (backoff, re-subscribe, ping),   *)
(*   - the inactivity promotion of per-slug files to R2, the event buffer  *)
(*     and its flush timer,                                                *)
(*   - the local-first JSONL writer and its per-slug upload timers,        *)
(*   - the retries of the REST fetch,                                      *)
(*   - the lifetime of the processes (mains, startup script, children),    *)
(*   - the dedup state the connectors persist to R2 and reload on start,   *)
(*   - the market context of a trade (windows, summary, raw list) over     *)
(*     logs drawn around the cap of the raw list,                          *)
(*   - the shutdown of the collectors and of the merger, and the merger    *)
(*     next to a collector that promotes the log it reads,                 *)
(*   - the HTTP block polling of the on-chain monitor.                     *)
(* One run exercises one implementation, selected by `impl` in Init: the   *)
(* connectors and the merger are independent processes / closures that     *)
(* share no state.                                                         *)
(***************************************************************************)
EXTENDS Integers, Sequences, FiniteSets, TLC

VARIABLES
    impl,         \* which connector / merger variant this run exercises
    seenOrder,    \* state.seenTxOrder | wsSeenOrder | insertion order of seenTrades
    seenSet,      \* state.seenTxSet   | wsSeen      | seenTrades
    lastTs,       \* state.lastTimestampByGroup (single group)
    handlers,     \* message handlers suspended at an await, in arrival order
    frames,       \* frames the socket has delivered so far
    emitLog,      \* the frames whose record was written, in the order of the writes (observer)
    lastOutcome,  \* outcome of the latest check-and-insert (observer)
    insertLog,    \* keys in the order the store accepted them (observer)
    slug,         \* the market whose files this run follows
    eventsLog,    \* by_slug/<slug>/events.jsonl of that market, in append order
    fed,          \* index in Feed of the last event the collector appended
    mergedFile,   \* merged_trades/<user>/<slug>.json as last written
    mergedOver,   \* length of eventsLog the written file was merged over (observer)
    pendingMerges,\* pendingMerges entry of the slug: <<>> or <<[merged, over]>>
    lastLineCount,\* lastLineCounts.get(eventsPath) || 0
    passed,       \* the events a merge pass has read so far (observer)
    isFirstRun,   \* isFirstRun of watchAndMerge
    restarts,     \* restarts of the merger process so far
    sock,         \* the connector's socket: connecting, open, closing, waiting, stopped
    reconnectAttempts, \* reconnectAttempts of the connector
    reconnectDelay,    \* MarketWebSocketFilter.reconnectDelay
    delays,       \* reconnect delays since the last successful connection (observer)
    subscribed,   \* subscribed | subscribedMarkets | targetMarkets
    sentOnConn,   \* topics with a subscribe frame sent on the current socket (observer)
    subscribedAtClose, \* the registry when the previous socket closed (observer)
    silence,      \* ms without traffic on the open socket, at ping intervals
    shouldRun,    \* shouldRun of storeUserTradesRealtime
    authReported, \* the user feed reported an authentication failure on this connection
    liveSockets,  \* sockets created and not yet closed (observer)
    pendingTimers,\* reconnect timers set and not yet fired (observer)
    now,          \* Date.now() of the collector, ms since it started
    slugLastActivity,  \* slugLastActivity: slug -> ms, NoNum when not tracked
    slugEventBuffers,  \* slugEventBuffers: slug -> the buffered events
    localFiles,   \* the artifacts each slug has on the local disk
    localLog,     \* the events in each slug's local log file
    remoteFiles,  \* the artifacts each slug has in R2
    remoteLog,    \* the events in each slug's uploaded log
    checks,       \* the running promotion checks, oldest first
    lastCheckAt,  \* time of the last tick of the check timer
    lastFlushAt,  \* time of the last tick of the flush timer
    promotedAt,   \* when each slug was promoted, NoNum once it has an event since (observer)
    promoEvents,  \* events received so far
    exited,       \* the collector has called process.exit
    awaitingSlug, \* WS messages whose handler awaits fetchSlugForConditionId
    bufferedSince, \* when the oldest event of each buffer was pushed (observer)
    r2Configured, \* isR2Configured()
    wClock,       \* Date.now() of storeUserTradesRealtime, ms since it started
    currentSlug,  \* JsonlWriter.currentSlug
    writerActiveSlugs,  \* JsonlWriter.activeSlugs
    completedSlugs,  \* JsonlWriter.completedSlugs: slug -> when its timer fires, NoNum if none
    eventsFile,   \* the events in each slug's local events.jsonl, <<>> when there is no file
    r2Objects,    \* the events in each slug's uploaded events.jsonl
    inflight,     \* the uploadToR2 calls that have not returned
    lastWriteAt,  \* time of the last write to each slug (observer)
    uploadLog,    \* the uploadToR2 calls that returned, with their outcome (observer)
    written,      \* events written so far
    fetchPhase,   \* where the fetch function is: "request", "sleep", "returned", "thrown"
    fetchAttempt, \* attempt of the fetch function's loop
    fetchError,   \* the error the last attempt failed with
    backoffLog,   \* the sleeps the fetch function took between attempts (observer)
    polls,        \* calls of the fetch function so far
    procPhase,    \* the process: "starting", "running", "stopping", "exited"
    exitCode,     \* the status passed to process.exit, NoNum while the process lives
    exitedFrom,   \* the phase in which process.exit was called (observer)
    configChecked, \* outcome of the validation of the startup configuration
    loggedErrors, \* steady-state errors printed so far, per source
    children,     \* the child processes of the startup script: running, signalled, exited
    connState,    \* the PersistedState object of each connector: its seenTxSet
    persisted,    \* the keys in the state object stored in R2
    acceptedBefore, \* the keys each connector accepted before the restart (observer)
    run,          \* 1 for the first run of the process, 2 after the restart
    unified,      \* opts.unified
    stopSignalled, \* SIGINT or SIGTERM was delivered to the collector process
    shutdownPc,   \* where the shutdown handler stands: running, flushing, grace, exited
    pollPc,       \* the REST polling loop: sleeping, fetching, or done
    wsState,      \* the socket of the WS connector: open, waiting (reconnect timer), closed
    acceptedEvents,      \* events written so far (observer)
    pollsStarted,        \* fetches started by the polling loop (observer)
    reconnectsScheduled, \* reconnect timers set so far (observer)
    chainHead,    \* the block number the provider reports
    lastBlock,    \* `last` of the block poller
    chainTicks,   \* the timer callbacks suspended in their block loop
    scanned       \* how often each block was scanned (observer)

dedupVars == <<seenOrder, seenSet, lastTs, handlers, lastOutcome, insertLog, frames, emitLog>>

mergeVars == <<slug, eventsLog, fed, mergedFile, mergedOver, pendingMerges, lastLineCount,
               isFirstRun, restarts, passed>>

connVars == <<sock, reconnectAttempts, reconnectDelay, delays, subscribed, sentOnConn,
              subscribedAtClose, silence, shouldRun, authReported, liveSockets,
              pendingTimers>>

promoVars == <<now, slugLastActivity, slugEventBuffers, localFiles, localLog, remoteFiles,
               remoteLog, checks, lastCheckAt, lastFlushAt, promotedAt, promoEvents, exited,
               awaitingSlug, bufferedSince, r2Configured>>

writerVars == <<wClock, currentSlug, writerActiveSlugs, completedSlugs, eventsFile, r2Objects,
                inflight, lastWriteAt, uploadLog, written>>

fetchVars == <<fetchPhase, fetchAttempt, fetchError, backoffLog, polls>>

procVars == <<procPhase, exitCode, exitedFrom, configChecked, loggedErrors, children>>

persistVars == <<connState, persisted, acceptedBefore, run, unified>>

stopVars == <<stopSignalled, shutdownPc, pollPc, wsState, acceptedEvents, pollsStarted,
              reconnectsScheduled>>

chainVars == <<chainHead, lastBlock, chainTicks, scanned>>

\* the connector's variables other than the stop flag
connOtherVars == <<sock, reconnectAttempts, reconnectDelay, delays, subscribed, sentOnConn,
                   subscribedAtClose, silence, authReported, liveSockets, pendingTimers>>

vars == <<impl, dedupVars, mergeVars, connVars, promoVars, writerVars, fetchVars, procVars, persistVars, stopVars, chainVars>>

\* everything but the dedup stores
notDedupVars == <<impl, mergeVars, connVars, promoVars, writerVars, fetchVars, procVars, persistVars, stopVars, chainVars>>

\* everything but the merger
notMergeVars == <<impl, dedupVars, connVars, promoVars, writerVars, fetchVars, procVars, persistVars, stopVars, chainVars>>

\* everything but the connector
notConnVars == <<impl, dedupVars, mergeVars, promoVars, writerVars, fetchVars, procVars, persistVars, stopVars, chainVars>>

\* everything but the promotion
notPromoVars == <<impl, dedupVars, mergeVars, connVars, writerVars, fetchVars, procVars, persistVars, stopVars, chainVars>>

\* everything but the JSONL writer
notWriterVars == <<impl, dedupVars, mergeVars, connVars, promoVars, fetchVars, procVars, persistVars, stopVars, chainVars>>

\* everything but the fetch function
notFetchVars == <<impl, dedupVars, mergeVars, connVars, promoVars, writerVars, procVars, persistVars, stopVars, chainVars>>

\* everything but the process lifetime
notProcVars == <<impl, dedupVars, mergeVars, connVars, promoVars, writerVars, fetchVars, persistVars, stopVars, chainVars>>

\* everything but the persisted dedup state
notPersistVars == <<impl, dedupVars, mergeVars, connVars, promoVars, writerVars, fetchVars, procVars, stopVars, chainVars>>

\* everything but the shutdown of a collector and its stop flag
notStopVars == <<impl, dedupVars, mergeVars, connOtherVars, promoVars, writerVars, fetchVars, procVars, persistVars, chainVars>>

\* everything but the on-chain monitor
notChainVars == <<impl, dedupVars, mergeVars, connVars, promoVars, writerVars, fetchVars, procVars, persistVars, stopVars>>

----------------------------------------------------------------------------
(* Generic helpers *)

Range(s) == {s[i] : i \in 1..Len(s)}

Last(s) == s[Len(s)]

\* s.slice(-n): the last n elements (all of s when it is shorter)
Suffix(s, n) == IF Len(s) <= n THEN s ELSE SubSeq(s, Len(s) - n + 1, Len(s))

\* the first n elements
Prefix(s, n) == IF Len(s) <= n THEN s ELSE SubSeq(s, 1, n)

IsDistinct(s) == \A i, j \in 1..Len(s) : i # j => s[i] # s[j]

----------------------------------------------------------------------------
(* Dedup stores *)

\* capacity of the stores; 10000 in the source, scaled down
DedupCap == 2

MAX_SEEN_TX == DedupCap

\* number of keys seenTrades keeps after a cleanup: 5000 of 10000 in the source
SEEN_TRADES_KEEP == MAX_SEEN_TX \div 2

\* the claim's load: 15000 distinct keys into capacity 10000
NumKeys == MAX_SEEN_TX + MAX_SEEN_TX \div 2

Keys == 1..NumKeys

\* stores stop being fed after this many accepted inserts
MaxInserts == NumKeys

\* handlers that may be suspended at the same time
MaxInflight == 2

\* frames a socket delivers in one run
MaxFrames == 5

\* trades per REST / activity response
MaxBatch == 2

WsImpls == {"user_ws", "market_ws"}

BatchImpls == {"rest_unified", "eth_poll", "dual_poll"}

DedupImpls == WsImpls \cup BatchImpls

NoOutcome == [key |-> 0, accepted |-> FALSE, flip |-> 0]

\* the membership test left out: every delivery passes
isSeenNever(set, key) == FALSE

\* `if (state.seenTxSet[dedupKey]) return;` / `if (wsSeen.has(dedupKey)) return;`
isSeen(set, key) == key \in set

\* splice(0, removeCount) of the order array once it exceeds MAX_SEEN_TX
pruneOrder(order) == Suffix(order, MAX_SEEN_TX)

\* the keys deleted from the set by that splice
pruneRemoved(order) ==
    IF Len(order) > MAX_SEEN_TX
    THEN Range(SubSeq(order, 1, Len(order) - MAX_SEEN_TX))
    ELSE {}

\* check-and-insert of one key, as the WS message handlers do it:
\* test, set, push, prune in one synchronous block
checkAndInsert(order, set, key) ==
    IF isSeen(set, key)
    THEN [accepted |-> FALSE, order |-> order, set |-> set]
    ELSE LET pushed == Append(order, key)
         IN  [accepted |-> TRUE,
              order |-> pruneOrder(pushed),
              set |-> (set \cup {key}) \ pruneRemoved(pushed)]

\* candidates.sort((a, b) => (a.timestamp - b.timestamp) || a.transactionHash.localeCompare(...))
\* the timestamp a trade carries; several trades may share one
TradeTs(k) == (k % 2) + 1

tradeBefore(a, b) == TradeTs(a) < TradeTs(b) \/ (TradeTs(a) = TradeTs(b) /\ a < b)

RECURSIVE insertSorted(_, _)
insertSorted(s, x) ==
    IF s = <<>> THEN <<x>>
    ELSE IF tradeBefore(x, Head(s)) THEN <<x>> \o s
    ELSE <<Head(s)>> \o insertSorted(Tail(s), x)

RECURSIVE sortTrades(_)
sortTrades(s) == IF s = <<>> THEN <<>> ELSE insertSorted(sortTrades(Tail(s)), Head(s))

\* the insert loop of a batch: a key already in the set (or seen earlier in the
\* batch) is skipped, every other key is added and pushed; no pruning inside the loop
RECURSIVE insertAll(_, _, _)
insertAll(order, set, batch) ==
    IF batch = <<>> THEN [order |-> order, set |-> set, added |-> <<>>]
    ELSE IF isSeen(set, Head(batch)) THEN insertAll(order, set, Tail(batch))
    ELSE LET rest == insertAll(Append(order, Head(batch)), set \cup {Head(batch)}, Tail(batch))
         IN  [rest EXCEPT !.added = <<Head(batch)>> \o rest.added]

\* appendRestTradesUnified: filter by last timestamp and by the seen set, sort,
\* insert every candidate, then prune the overflow once after the loop
restCandidates(order, set, last, batch) ==
    sortTrades(SelectSeq(batch, LAMBDA k : TradeTs(k) >= last /\ ~isSeen(set, k)))

appendRestTradesUnified(order, set, last, batch) ==
    LET ins == insertAll(order, set, restCandidates(order, set, last, batch))
        maxTs == IF ins.added = <<>> THEN last
                 ELSE LET m == CHOOSE k \in Range(ins.added) :
                                   \A j \in Range(ins.added) : TradeTs(j) <= TradeTs(k)
                      IN  IF TradeTs(m) > last THEN TradeTs(m) ELSE last
    IN  [order |-> pruneOrder(ins.order),
         set |-> ins.set \ pruneRemoved(ins.order),
         last |-> maxTs,
         added |-> ins.added]

\* seenTrades cleanup: `if (seenTrades.size > 10000)` keep `keys.slice(-5000)`
cleanupSeenTrades(order) ==
    IF Len(order) > MAX_SEEN_TX THEN Suffix(order, SEEN_TRADES_KEEP) ELSE order

\* startUserActivityPolling: one response of the activity API
pollUserActivity(order, set, batch) ==
    LET ins == insertAll(order, set, batch)
        kept == cleanupSeenTrades(ins.order)
    IN  [order |-> kept, set |-> Range(kept), added |-> ins.added]

\* the loop of the dual-endpoint poller over one response: a trade is skipped
\* when `trade.timestamp <= lastActivityTimestamp` or when its key was seen,
\* and every accepted trade raises the last timestamp at once
RECURSIVE pollDualEndpoint(_, _, _, _)
pollDualEndpoint(order, set, last, batch) ==
    IF batch = <<>> THEN [order |-> order, set |-> set, last |-> last, added |-> <<>>]
    ELSE IF TradeTs(Head(batch)) <= last \/ isSeen(set, Head(batch))
         THEN pollDualEndpoint(order, set, last, Tail(batch))
         ELSE LET rest == pollDualEndpoint(Append(order, Head(batch)), set \cup {Head(batch)},
                                           IF TradeTs(Head(batch)) > last THEN TradeTs(Head(batch)) ELSE last,
                                           Tail(batch))
              IN  [rest EXCEPT !.added = <<Head(batch)>> \o rest.added]

Batches == UNION {[1..n -> Keys] : n \in 1..MaxBatch}

pendingLookups == Cardinality({i \in 1..Len(handlers) : handlers[i].pc = "lookup"})

RemoveAt(s, i) == SubSeq(s, 1, i - 1) \o SubSeq(s, i + 1, Len(s))

InitDedupVars ==
    /\ seenOrder = <<>>
    /\ seenSet = {}
    /\ lastTs = 0
    /\ handlers = <<>>
    /\ lastOutcome = NoOutcome
    /\ insertLog = <<>>
    /\ frames = 0
    /\ emitLog = <<>>

\* the synchronous dedup block of a WS message handler for key k; `rest` is the
\* handler list without this handler
dedupStep(k, frame, rest) ==
    LET r == checkAndInsert(seenOrder, seenSet, k)
    IN  /\ seenOrder' = r.order
        /\ seenSet' = r.set
        /\ lastOutcome' = [key |-> k, accepted |-> r.accepted, flip |-> 1 - lastOutcome.flip]
        /\ insertLog' = IF r.accepted THEN Append(insertLog, k) ELSE insertLog
        /\ handlers' = IF r.accepted /\ impl = "user_ws"
                       THEN Append(rest, [key |-> k, pc |-> "saving", frame |-> frame])
                       ELSE rest
        /\ emitLog' = IF r.accepted /\ impl # "user_ws" THEN Append(emitLog, frame) ELSE emitLog
        /\ UNCHANGED lastTs

\* a frame whose slug is not known yet: the handler suspends at
\* `await fetchSlugForConditionId(...)` / `await fetchMarketMetaForConditionId(...)`
WsMessageLookup(k) ==
    /\ impl \in WsImpls
    /\ Len(handlers) < MaxInflight
    /\ Len(insertLog) + pendingLookups < MaxInserts
    /\ frames < MaxFrames
    /\ frames' = frames + 1
    /\ handlers' = Append(handlers, [key |-> k, pc |-> "lookup", frame |-> frames + 1])
    /\ UNCHANGED <<notDedupVars, seenOrder, seenSet, lastTs, lastOutcome, insertLog, emitLog>>

\* a frame that carries its slug: the handler reaches the dedup block at once
WsMessageDirect(k) ==
    /\ impl \in WsImpls
    /\ Len(handlers) < MaxInflight
    /\ Len(insertLog) + pendingLookups < MaxInserts
    /\ frames < MaxFrames
    /\ frames' = frames + 1
    /\ dedupStep(k, frames + 1, handlers)
    /\ UNCHANGED notDedupVars

\* the lookup of a suspended handler resolves and the handler runs its dedup block
WsLookupDone(i) ==
    /\ impl \in WsImpls
    /\ i \in 1..Len(handlers)
    /\ handlers[i].pc = "lookup"
    /\ dedupStep(handlers[i].key, handlers[i].frame, RemoveAt(handlers, i))
    /\ UNCHANGED <<notDedupVars, frames>>

\* user WS: `await saveState(...)` resolves, the handler writes its record and ends
WsSaveDone(i) ==
    /\ impl = "user_ws"
    /\ i \in 1..Len(handlers)
    /\ handlers[i].pc = "saving"
    /\ handlers' = RemoveAt(handlers, i)
    /\ emitLog' = Append(emitLog, handlers[i].frame)
    /\ UNCHANGED <<notDedupVars, seenOrder, seenSet, lastTs, lastOutcome, insertLog, frames>>

\* one response of the REST activity endpoint, handled by appendRestTradesUnified
RestPollBatch(batch) ==
    /\ impl = "rest_unified"
    /\ Len(insertLog) < MaxInserts
    /\ LET r == appendRestTradesUnified(seenOrder, seenSet, lastTs, batch)
       IN  /\ seenOrder' = r.order
           /\ seenSet' = r.set
           /\ lastTs' = r.last
           /\ insertLog' = insertLog \o r.added
    /\ UNCHANGED <<notDedupVars, handlers, lastOutcome, frames, emitLog>>

\* one response of the activity API in the Ethereum 1h collector
EthPollBatch(batch) ==
    /\ impl = "eth_poll"
    /\ Len(insertLog) < MaxInserts
    /\ LET r == pollUserActivity(seenOrder, seenSet, batch)
       IN  /\ seenOrder' = r.order
           /\ seenSet' = r.set
           /\ insertLog' = insertLog \o r.added
    /\ UNCHANGED <<notDedupVars, lastTs, handlers, lastOutcome, frames, emitLog>>

\* one response of the /activity endpoint in the dual-endpoint poller
DualPollBatch(batch) ==
    /\ impl = "dual_poll"
    /\ Len(insertLog) < MaxInserts
    /\ LET r == pollDualEndpoint(seenOrder, seenSet, lastTs, batch)
           kept == cleanupSeenTrades(r.order)
       IN  /\ seenOrder' = kept
           /\ seenSet' = Range(kept)
           /\ lastTs' = r.last
           /\ insertLog' = insertLog \o r.added
    /\ UNCHANGED <<notDedupVars, handlers, lastOutcome, frames, emitLog>>

----------------------------------------------------------------------------
(* Correlation / merge engine: matchAndMergeTrades *)

\* the summary-building variant and the older raw-window variant of the merger
MergeImpls == {"merge_summary", "merge_raw"}

\* the summary-building merger started on a log a collector left behind
ContextImpls == {"merge_context"}

SummaryImpls == {"merge_summary"} \cup ContextImpls

\* window half-width of the summary-building merger, ms
MARKET_WINDOW_MS == 3000

\* window half-width of the raw-window merger, ms
MARKET_WINDOW_MS_RAW == 5000

\* the closest snapshot is used when it is at most this far from the trade, ms
FALLBACK_MAX_DIFF_MS == 30000

\* the widened window never reaches further than this from the trade, ms
FALLBACK_CLAMP_MS == 10000

\* cap of the raw snapshot list of a record; 100 in the source, scaled down to
\* stay above SNAPSHOTS_BEFORE_TRADE
RawCap == 12

MAX_RAW_EVENTS_PER_TRADE == RawCap

SNAPSHOTS_BEFORE_TRADE == 10

SNAPSHOTS_AFTER_TRADE == 10

\* restarts of the merger process in one run
MaxRestarts == 2

\* a numeric field the event does not carry (`bestBid?: number`)
NoNum == -1

Min(a, b) == IF a <= b THEN a ELSE b

Max(a, b) == IF a >= b THEN a ELSE b

Abs(a) == IF a >= 0 THEN a ELSE -a

\* EventRecord: t and recv in ms, prices in units of 0.0001
Ev(src, type, t, recv, tx, bestBid, price) ==
    [src |-> src, type |-> type, t |-> t, recv |-> recv, tx |-> tx,
     bestBid |-> bestBid, price |-> price]

\* the markets of a run; the merger handles each market's files on their own
Slugs == {"eth-window", "eth-fallback", "eth-dup"}

\* what the collector receives for each market, in arrival order; it may miss
\* any of it.
\* eth-window: snapshots around a trade at 1000 s, the trade delivered by the
\*   poll connector twice (the second time with an upper-case hash), and a
\*   snapshot long after;
\* eth-fallback: a trade at 1000 s whose first snapshots come 8 s and 20 s later;
\* eth-dup: a trade delivered by the poll connector and by the chain monitor
Feeds ==
    [s \in Slugs |->
       CASE s = "eth-window" ->
              << Ev("market_ws", "price_change",      997000,  997010, "",      5000, NoNum),
                 Ev("market_ws", "price_change",      999000,  999010, "",      5201, NoNum),
                 Ev("rest_poll", "trade",            1000000, 1000900, "0xdef", NoNum, 4900),
                 Ev("market_ws", "last_trade_price", 1002000, 1002010, "",      NoNum, 4900),
                 Ev("rest_poll", "trade",            1000000, 1003000, "0xDEF", NoNum, 4900),
                 Ev("market_ws", "price_change",     2000000, 2000010, "",      6000, NoNum) >>
         [] s = "eth-fallback" ->
              << Ev("rest_poll", "trade",            1000000, 1000900, "0xdef", NoNum, 4900),
                 Ev("market_ws", "price_change",     1008000, 1008010, "",      5100, NoNum),
                 Ev("market_ws", "price_change",     1020000, 1020010, "",      5300, NoNum) >>
         [] OTHER ->
              << Ev("rest_poll", "trade",            1000100, 1000900, "0xabc", NoNum, 5100),
                 Ev("onchain",   "onchain_tx",       1000300, 1001200, "0xabc", NoNum, NoNum),
                 Ev("market_ws", "price_change",     1000200, 1000210, "",      5000, NoNum),
                 Ev("rest_poll", "trade",            1000100, 1003000, "0xABC", NoNum, 5100) >>]

Feed == Feeds[slug]

\* String.prototype.toLowerCase on the hashes of the feed
toLowerCase(tx) ==
    CASE tx = "0xDEF" -> "0xdef"
      [] tx = "0xABC" -> "0xabc"
      [] OTHER -> tx

\* a record with no market context yet
NoSummary == <<>>

NoRawEvents == [present |-> FALSE, list |-> <<>>]

\* the `rest` object built from a REST event
restOf(event) == [price |-> event.price, timestamp |-> event.t]

\* `merged.set(txLower, {...})` for a transaction seen for the first time
newTrade(event) ==
    [tx |-> event.tx, timestamp |-> event.t, timestampMs |-> event.t,
     receivedAtMs |-> event.recv, rest |-> restOf(event),
     marketSummary |-> NoSummary, marketEvents |-> NoRawEvents]

\* lookup that never finds the transaction: every delivery makes a new record
mergedGetNone(m, key) == 0

\* `merged.get(txLower)`: position of the entry in insertion order, 0 when absent
mergedGet(m, key) ==
    IF \E i \in 1..Len(m) : toLowerCase(m[i].tx) = key
    THEN CHOOSE i \in 1..Len(m) :
             /\ toLowerCase(m[i].tx) = key
             /\ \A j \in 1..(i - 1) : toLowerCase(m[j].tx) # key
    ELSE 0

\* "Load existing merged trades (deduplicate by tx)"
RECURSIVE loadExisting(_, _)
loadExisting(m, existing) ==
    IF existing = <<>> THEN m
    ELSE LET trade == Head(existing)
             i == mergedGet(m, toLowerCase(trade.tx))
             m2 == IF trade.tx = "" THEN m
                   ELSE IF i = 0 THEN Append(m, trade)
                   ELSE IF trade.timestampMs < m[i].timestampMs
                        THEN [m EXCEPT ![i] = trade]
                        ELSE m
         IN  loadExisting(m2, Tail(existing))

\* one REST event: update the record of its transaction or create it
applyRestEvent(m, event) ==
    IF event.src # "rest_poll" \/ event.tx = "" THEN m
    ELSE LET i == mergedGet(m, toLowerCase(event.tx))
         IN  IF i # 0
             THEN [m EXCEPT ![i] =
                      [@ EXCEPT !.rest = restOf(event),
                                !.timestamp = Min(@, event.t),
                                !.timestampMs = Min(IF @ # 0 THEN @ ELSE event.t, event.t),
                                !.receivedAtMs = Max(@, event.recv)]]
             ELSE Append(m, newTrade(event))

RECURSIVE processRestEvents(_, _)
processRestEvents(m, events) ==
    IF events = <<>> THEN m
    ELSE processRestEvents(applyRestEvent(m, Head(events)), Tail(events))

\* the market_ws events with lo <= t <= hi, in log order
eventsInWindow(marketEvents, lo, hi) ==
    SelectSeq(marketEvents, LAMBDA e : e.src = "market_ws" /\ e.t >= lo /\ e.t <= hi)

\* Array.prototype.sort((a, b) => a.t - b.t): stable, ascending by t
RECURSIVE insertByT(_, _)
insertByT(s, x) ==
    IF s = <<>> THEN <<x>>
    ELSE IF x.t < Head(s).t THEN <<x>> \o s
    ELSE <<Head(s)>> \o insertByT(Tail(s), x)

RECURSIVE sortByT(_)
sortByT(s) ==
    IF s = <<>> THEN <<>>
    ELSE insertByT(sortByT(SubSeq(s, 1, Len(s) - 1)), Last(s))

\* "Find closest market event (before or after)": the first one at minimal distance
closestEvent(marketEvents, tradeTime) ==
    LET mk == {i \in 1..Len(marketEvents) : marketEvents[i].src = "market_ws"}
    IN  IF mk = {} THEN 0
        ELSE CHOOSE i \in mk :
                 /\ \A j \in mk : Abs(marketEvents[i].t - tradeTime)
                                     <= Abs(marketEvents[j].t - tradeTime)
                 /\ \A j \in mk : j < i => Abs(marketEvents[j].t - tradeTime)
                                              > Abs(marketEvents[i].t - tradeTime)

\* the primary window found nothing and the closest snapshot is near enough
fallbackActivates(marketEvents, tradeTime) ==
    /\ eventsInWindow(marketEvents, tradeTime - MARKET_WINDOW_MS,
                      tradeTime + MARKET_WINDOW_MS) = <<>>
    /\ marketEvents # <<>>
    /\ closestEvent(marketEvents, tradeTime) # 0
    /\ Abs(marketEvents[closestEvent(marketEvents, tradeTime)].t - tradeTime)
           <= FALLBACK_MAX_DIFF_MS

\* the widened window around the closest snapshot, without the clamp
extendedWindowUnclamped(marketEvents, tradeTime) ==
    LET closest == marketEvents[closestEvent(marketEvents, tradeTime)]
    IN  eventsInWindow(marketEvents, closest.t - MARKET_WINDOW_MS, closest.t + MARKET_WINDOW_MS)

\* the widened window around the closest snapshot, clamped around the trade
extendedWindow(marketEvents, tradeTime) ==
    LET closest == marketEvents[closestEvent(marketEvents, tradeTime)]
        extendedWindowStart == Max(closest.t - MARKET_WINDOW_MS, tradeTime - FALLBACK_CLAMP_MS)
        extendedWindowEnd == Min(closest.t + MARKET_WINDOW_MS, tradeTime + FALLBACK_CLAMP_MS)
    IN  eventsInWindow(marketEvents, extendedWindowStart, extendedWindowEnd)

\* windowEvents of one trade, sorted by time
windowEvents(marketEvents, tradeTime) ==
    LET primary == eventsInWindow(marketEvents, tradeTime - MARKET_WINDOW_MS,
                                  tradeTime + MARKET_WINDOW_MS)
    IN  sortByT(IF primary # <<>> THEN primary
                ELSE IF fallbackActivates(marketEvents, tradeTime)
                     THEN extendedWindow(marketEvents, tradeTime)
                     ELSE <<>>)

RECURSIVE SumSeq(_)
SumSeq(s) == IF s = <<>> THEN 0 ELSE Head(s) + SumSeq(Tail(s))

SeqMin(s) == CHOOSE x \in Range(s) : \A y \in Range(s) : x <= y

SeqMax(s) == CHOOSE x \in Range(s) : \A y \in Range(s) : x >= y

NoStats == [min |-> NoNum, max |-> NoNum, avg |-> NoNum]

\* Math.round(avg * 10000) / 10000 with values in units of 0.0001: half rounds up
roundAvg(sum, n) == (2 * sum + n) \div (2 * n)

calcStats(arr) ==
    IF arr = <<>> THEN NoStats
    ELSE [min |-> SeqMin(arr), max |-> SeqMax(arr), avg |-> roundAvg(SumSeq(arr), Len(arr))]

MapSeq(s, f(_)) == [i \in 1..Len(s) |-> f(s[i])]

\* MarketSnapshot of an event
snapshotOf(e) == [t |-> e.t, bestBid |-> e.bestBid, price |-> e.price]

\* the raw form of an event kept in marketEvents
rawEventOf(e) == [t |-> e.t, type |-> e.type, price |-> e.price, bestBid |-> e.bestBid]

\* MarketSummary over the sorted window w of a trade at tradeTime
marketSummaryOf(w, tradeTime) ==
    LET eventsBefore == MapSeq(SelectSeq(w, LAMBDA e : e.t < tradeTime), snapshotOf)
        eventsAt == MapSeq(SelectSeq(w, LAMBDA e : e.t = tradeTime), snapshotOf)
        eventsAfter == MapSeq(SelectSeq(w, LAMBDA e : e.t > tradeTime), snapshotOf)
        bids == MapSeq(SelectSeq(w, LAMBDA e : e.bestBid # NoNum), LAMBDA e : e.bestBid)
    IN  [windowMs |-> MARKET_WINDOW_MS,
         eventCount |-> Len(w),
         beforeTrade |-> Suffix(eventsBefore, SNAPSHOTS_BEFORE_TRADE),
         afterTrade |-> Prefix(eventsAfter, SNAPSHOTS_AFTER_TRADE),
         atTrade |-> Suffix(eventsAt, 1),
         bidStats |-> calcStats(bids),
         priceChangeCount |-> Len(SelectSeq(w, LAMBDA e : e.type = "price_change")),
         lastTradePriceCount |-> Len(SelectSeq(w, LAMBDA e : e.type = "last_trade_price")),
         firstEventTime |-> Head(w).t,
         lastEventTime |-> Last(w).t]

\* "Add market context around trade times - create compact summaries": a trade
\* whose window is empty is skipped and keeps what it had
addMarketContext(trade, marketEvents) ==
    LET w == windowEvents(marketEvents, trade.timestampMs)
    IN  IF w = <<>> THEN trade
        ELSE [trade EXCEPT
                 !.marketSummary = <<marketSummaryOf(w, trade.timestampMs)>>,
                 !.marketEvents = IF Len(w) <= MAX_RAW_EVENTS_PER_TRADE
                                  THEN [present |-> TRUE, list |-> MapSeq(w, rawEventOf)]
                                  ELSE NoRawEvents]

\* the raw-window merger: the window's events are pushed onto the list the
\* record already carries, the list is sorted, an empty list is deleted
addMarketEvents(trade, marketEvents) ==
    LET have == IF trade.marketEvents.present THEN trade.marketEvents.list ELSE <<>>
        inWin == eventsInWindow(marketEvents, trade.timestampMs - MARKET_WINDOW_MS_RAW,
                                trade.timestampMs + MARKET_WINDOW_MS_RAW)
        list == sortByT(have \o MapSeq(inWin, rawEventOf))
    IN  [trade EXCEPT !.marketEvents = IF list = <<>> THEN NoRawEvents
                                       ELSE [present |-> TRUE, list |-> list]]

\* Array.from(merged.values()).sort((a, b) => a.timestampMs - b.timestampMs)
RECURSIVE insertByTimestampMs(_, _)
insertByTimestampMs(s, x) ==
    IF s = <<>> THEN <<x>>
    ELSE IF x.timestampMs < Head(s).timestampMs THEN <<x>> \o s
    ELSE <<Head(s)>> \o insertByTimestampMs(Tail(s), x)

RECURSIVE sortByTimestampMs(_)
sortByTimestampMs(s) ==
    IF s = <<>> THEN <<>>
    ELSE insertByTimestampMs(sortByTimestampMs(SubSeq(s, 1, Len(s) - 1)), Last(s))

\* mergeTrades of the summary-building merger
mergeTrades(restEvents, marketEvents, existingMerged) ==
    LET merged == processRestEvents(loadExisting(<<>>, existingMerged), restEvents)
    IN  sortByTimestampMs([i \in 1..Len(merged) |-> addMarketContext(merged[i], marketEvents)])

\* mergeTrades of the raw-window merger
mergeTradesRaw(restEvents, marketEvents, existingMerged) ==
    LET merged == processRestEvents(loadExisting(<<>>, existingMerged), restEvents)
    IN  sortByTimestampMs([i \in 1..Len(merged) |-> addMarketEvents(merged[i], marketEvents)])

InitMergeVars ==
    /\ slug \in Slugs
    /\ eventsLog = <<>>
    /\ fed = 0
    /\ mergedFile = <<>>
    /\ mergedOver = 0
    /\ pendingMerges = <<>>
    /\ lastLineCount = 0
    /\ isFirstRun = TRUE
    /\ restarts = 0
    /\ passed = {}

\* `allEvents.filter((e) => e.src === 'rest_poll' && e.tx)`
restEventsOf(allEvents) == SelectSeq(allEvents, LAMBDA e : e.src = "rest_poll" /\ e.tx # "")

\* `allEvents.filter((e) => e.src === 'market_ws')`
marketEventsOf(allEvents) == SelectSeq(allEvents, LAMBDA e : e.src = "market_ws")

\* the file is looked at when it exists and it is the first pass or it has grown
fileToProcess ==
    /\ eventsLog # <<>>
    /\ isFirstRun \/ Len(eventsLog) > lastLineCount

\* the collector appends the next event it received to the market's log
AppendEvent(i) ==
    /\ impl \in MergeImpls
    /\ i \in (fed + 1)..Len(Feed)
    /\ eventsLog' = Append(eventsLog, Feed[i])
    /\ fed' = i
    /\ UNCHANGED <<notMergeVars, slug, mergedFile, mergedOver, pendingMerges, lastLineCount,
                   isFirstRun, restarts, passed>>

\* one iteration of the watch loop of the summary-building merger, with the
\* flushPendingWrites call that ends it; `elapsed`: BATCH_WRITE_INTERVAL_MS has
\* passed since the last write, `writeOk`: saveMergedTrades does not throw
WatchIteration(elapsed, writeOk) ==
    /\ impl \in SummaryImpls
    /\ LET restEvents == restEventsOf(eventsLog)
           marketEvents == marketEventsOf(eventsLog)
           merged == mergeTrades(restEvents, marketEvents, mergedFile)
           previousLength == IF pendingMerges # <<>> THEN Len(pendingMerges[1].merged)
                             ELSE Len(mergedFile)
           newMerged == Len(merged) - previousLength
           queued == IF /\ fileToProcess
                        /\ restEvents # <<>>
                        /\ isFirstRun \/ newMerged > 0 \/ marketEvents # <<>>
                     THEN <<[merged |-> merged, over |-> Len(eventsLog)]>>
                     ELSE pendingMerges
           flush == (isFirstRun \/ elapsed) /\ queued # <<>>
       IN  /\ pendingMerges' = IF flush THEN <<>> ELSE queued
           /\ mergedFile' = IF flush /\ writeOk THEN queued[1].merged ELSE mergedFile
           /\ mergedOver' = IF flush /\ writeOk THEN queued[1].over ELSE mergedOver
    /\ lastLineCount' = IF fileToProcess THEN Len(eventsLog) ELSE lastLineCount
    /\ passed' = IF fileToProcess THEN passed \cup Range(eventsLog) ELSE passed
    /\ isFirstRun' = FALSE
    /\ UNCHANGED <<notMergeVars, slug, eventsLog, fed, restarts>>

\* one iteration of the watch loop of the raw-window merger
WatchIterationRaw ==
    /\ impl = "merge_raw"
    /\ LET restEvents == restEventsOf(eventsLog)
           marketEvents == marketEventsOf(eventsLog)
           merged == mergeTradesRaw(restEvents, marketEvents, mergedFile)
           newMerged == Len(merged) - Len(mergedFile)
           save == /\ fileToProcess
                   /\ restEvents # <<>>
                   /\ isFirstRun \/ newMerged > 0
       IN  /\ mergedFile' = IF save THEN merged ELSE mergedFile
           /\ mergedOver' = IF save THEN Len(eventsLog) ELSE mergedOver
    /\ lastLineCount' = IF fileToProcess THEN Len(eventsLog) ELSE lastLineCount
    /\ passed' = IF fileToProcess THEN passed \cup Range(eventsLog) ELSE passed
    /\ isFirstRun' = FALSE
    /\ UNCHANGED <<notMergeVars, slug, eventsLog, fed, pendingMerges, restarts>>

\* the merger process is started again: its in-memory state is new, the files stay
RestartMerger ==
    /\ impl \in MergeImpls
    /\ ~isFirstRun
    /\ restarts < MaxRestarts
    /\ restarts' = restarts + 1
    /\ isFirstRun' = TRUE
    /\ lastLineCount' = 0
    /\ pendingMerges' = <<>>
    /\ UNCHANGED <<notMergeVars, slug, eventsLog, fed, mergedFile, mergedOver, passed>>

\* uploadSlugToR2 of the collector has uploaded the market's events log and
\* unlinks it; the next append creates the file again
PromoteLog ==
    /\ impl \in SummaryImpls
    /\ eventsLog # <<>>
    /\ eventsLog' = <<>>
    /\ UNCHANGED <<notMergeVars, slug, fed, mergedFile, mergedOver, pendingMerges,
                   lastLineCount, isFirstRun, restarts, passed>>

\* a pass of the watch loop while the merger process is alive
MergerPass(elapsed, writeOk) ==
    /\ shutdownPc = "running"
    /\ WatchIteration(elapsed, writeOk)

\* the SIGINT or SIGTERM handler of the merger: it kills the logger child
\* and calls process.exit(0); what the process held in memory is gone
StopMerger ==
    /\ impl \in SummaryImpls
    /\ shutdownPc = "running"
    /\ stopSignalled' = TRUE
    /\ shutdownPc' = "exited"
    /\ pendingMerges' = <<>>
    /\ UNCHANGED <<impl, dedupVars, connVars, promoVars, writerVars, fetchVars, procVars,
                   persistVars, chainVars, pollPc, wsState, acceptedEvents, pollsStarted,
                   reconnectsScheduled, slug, eventsLog, fed, mergedFile, mergedOver,
                   lastLineCount, isFirstRun, restarts, passed>>

----------------------------------------------------------------------------
(* Live-feed connection lifecycle *)

\* connectMarketWs, connectUserWs, connectMarketWebSocket of the Ethereum 1h
\* collector, MarketWebSocketFilter of the fast monitor, connectMarketWs of
\* scripts/storeUserTradesRealtime.ts
ConnImpls == {"market_conn", "user_conn", "eth_conn", "fast_conn", "script_conn"}

\* the connectors that stop reconnecting when shouldRun is false
StoppableConns == {"market_conn", "user_conn"}

BASE_RECONNECT_DELAY_MS == 1000

MAX_RECONNECT_DELAY_MS == 30000

PING_INTERVAL_MS == 10000

PONG_TIMEOUT_MS == 30000

\* consecutive failed connections in one run
MaxFailures == 7

\* ping intervals a connection may stay silent in one run
MaxQuietTicks == 6

\* asset ids / slugs / condition ids a connector may subscribe to
Topics == {"topic-a", "topic-b"}

\* Math.min(MAX_RECONNECT_DELAY_MS, BASE_RECONNECT_DELAY_MS * Math.pow(2, attempts - 1))
backoffDelay(attempts) ==
    Min(MAX_RECONNECT_DELAY_MS, BASE_RECONNECT_DELAY_MS * 2^(attempts - 1))

\* subscribeToMarket goes past its first check only for a slug not yet registered
subscribeToMarketProceeds(registry, topic) == topic \notin registry

\* the topics for which the open handler puts a subscribe frame on the new socket
resubscribed(registry) ==
    IF impl = "eth_conn"
    THEN {topic \in registry : subscribeToMarketProceeds(registry, topic)}
    ELSE IF impl = "script_conn" THEN {}
    ELSE registry

InitConnVars ==
    /\ sock = "connecting"
    /\ reconnectAttempts = 0
    /\ reconnectDelay = BASE_RECONNECT_DELAY_MS
    /\ delays = <<>>
    /\ subscribed = IF impl = "user_conn" THEN Topics ELSE {}
    /\ sentOnConn = {}
    /\ subscribedAtClose = {}
    /\ silence = 0
    /\ shouldRun = TRUE
    /\ authReported = FALSE
    /\ liveSockets = 1
    /\ pendingTimers = 0

\* 'open': the attempt counter (or delay) is reset, the subscribe frames are sent
OpenHandler ==
    /\ impl \in ConnImpls
    /\ sock = "connecting"
    /\ sock' = "open"
    /\ reconnectAttempts' = IF impl = "fast_conn" THEN reconnectAttempts ELSE 0
    /\ reconnectDelay' = IF impl = "fast_conn" THEN BASE_RECONNECT_DELAY_MS ELSE reconnectDelay
    /\ sentOnConn' = resubscribed(subscribed)
    /\ silence' = 0
    /\ delays' = <<>>
    /\ UNCHANGED <<notConnVars, liveSockets, pendingTimers, authReported, subscribed, subscribedAtClose, shouldRun>>

\* 'message': any frame counts as a liveness signal
MessageHandler ==
    /\ impl \in ConnImpls
    /\ sock = "open"
    /\ silence > 0
    /\ silence' = 0
    /\ UNCHANGED <<notConnVars, liveSockets, pendingTimers, authReported, sock, reconnectAttempts, reconnectDelay, delays, subscribed,
                   sentOnConn, subscribedAtClose, shouldRun>>

\* the ping timer fires after an interval without traffic: connectMarketWs closes
\* the socket when the silence exceeds PONG_TIMEOUT_MS, the others only send PING
PingTimer ==
    /\ impl \in ConnImpls \ {"fast_conn"}
    /\ sock = "open"
    /\ silence < MaxQuietTicks * PING_INTERVAL_MS
    /\ silence' = silence + PING_INTERVAL_MS
    /\ sock' = IF impl = "market_conn" /\ silence + PING_INTERVAL_MS > PONG_TIMEOUT_MS
               THEN "closing" ELSE sock
    /\ UNCHANGED <<notConnVars, liveSockets, pendingTimers, authReported, reconnectAttempts, reconnectDelay, delays, subscribed,
                   sentOnConn, subscribedAtClose, shouldRun>>

\* MarketWebSocketFilter has no timer: an interval passes without traffic
QuietInterval ==
    /\ impl = "fast_conn"
    /\ sock = "open"
    /\ silence < MaxQuietTicks * PING_INTERVAL_MS
    /\ silence' = silence + PING_INTERVAL_MS
    /\ UNCHANGED <<notConnVars, liveSockets, pendingTimers, authReported, sock, reconnectAttempts, reconnectDelay, delays, subscribed,
                   sentOnConn, subscribedAtClose, shouldRun>>

\* 'error': the connectors of storeUserTradesRealtime close the socket, the others log
ErrorHandler ==
    /\ impl \in ConnImpls
    /\ sock \in {"connecting", "open"}
    /\ sock' = IF impl \in StoppableConns THEN "closing" ELSE sock
    /\ UNCHANGED <<notConnVars, liveSockets, pendingTimers, authReported, reconnectAttempts, reconnectDelay, delays, subscribed,
                   sentOnConn, subscribedAtClose, silence, shouldRun>>

\* 'close': the reconnect is scheduled with the delay the connector computes;
\* the script's handler only prints that the socket closed
CloseHandler ==
    /\ impl \in ConnImpls
    /\ sock \in {"connecting", "open", "closing"}
    /\ Len(delays) < MaxFailures
    /\ subscribedAtClose' = subscribed
    /\ silence' = 0
    /\ liveSockets' = liveSockets - 1
    /\ IF impl \in StoppableConns /\ ~shouldRun
       THEN /\ sock' = "stopped"
            /\ UNCHANGED <<reconnectAttempts, reconnectDelay, delays, pendingTimers>>
       ELSE IF impl = "script_conn"
       THEN /\ sock' = "closed"
            /\ UNCHANGED <<reconnectAttempts, reconnectDelay, delays, pendingTimers>>
       ELSE /\ sock' = "waiting"
            /\ pendingTimers' = pendingTimers + 1
            /\ reconnectAttempts' = IF impl = "fast_conn" THEN reconnectAttempts
                                    ELSE reconnectAttempts + 1
            /\ delays' = Append(delays, IF impl = "fast_conn" THEN reconnectDelay
                                        ELSE backoffDelay(reconnectAttempts + 1))
            /\ reconnectDelay' = IF impl = "fast_conn"
                                 THEN Min(reconnectDelay * 2, MAX_RECONNECT_DELAY_MS)
                                 ELSE reconnectDelay
    /\ UNCHANGED <<notConnVars, authReported, subscribed, sentOnConn, shouldRun>>

\* the reconnect timer fires: connect()
ReconnectTimer ==
    /\ impl \in ConnImpls
    /\ sock = "waiting"
    /\ sock' = IF impl \in StoppableConns /\ ~shouldRun THEN "stopped" ELSE "connecting"
    /\ pendingTimers' = pendingTimers - 1
    /\ liveSockets' = IF impl \in StoppableConns /\ ~shouldRun THEN liveSockets
                      ELSE liveSockets + 1
    /\ reconnectAttempts' = IF impl = "eth_conn" THEN 0 ELSE reconnectAttempts
    /\ sentOnConn' = {}
    /\ authReported' = FALSE
    /\ UNCHANGED <<notConnVars, reconnectDelay, delays, subscribed, subscribedAtClose,
                   silence, shouldRun>>

\* a topic is discovered: doSubscribe / subscribeToMarket / loadMarketsForSlug
Subscribe(topic) ==
    /\ impl \in {"market_conn", "eth_conn", "fast_conn", "script_conn"}
    /\ topic \notin subscribed
    /\ impl = "eth_conn" => sock = "open"
    /\ subscribed' = subscribed \cup {topic}
    /\ sentOnConn' = IF sock = "open" /\ impl # "fast_conn"
                     THEN sentOnConn \cup {topic} ELSE sentOnConn
    /\ UNCHANGED <<notConnVars, liveSockets, pendingTimers, authReported, sock, reconnectAttempts, reconnectDelay, delays,
                   subscribedAtClose, silence, shouldRun>>

\* SIGINT / SIGTERM: shouldRun = false
Shutdown ==
    /\ impl \in StoppableConns
    /\ shouldRun
    /\ shouldRun' = FALSE
    /\ UNCHANGED <<notConnVars, liveSockets, pendingTimers, authReported, sock, reconnectAttempts, reconnectDelay, delays, subscribed,
                   sentOnConn, subscribedAtClose, silence>>

\* MarketWebSocketFilter.disconnect(), which HybridMonitor.stop() calls: the
\* current socket, if there is one, is closed; the close handler and a timer
\* that is already set stay as they are
Disconnect ==
    /\ impl = "fast_conn"
    /\ ~stopSignalled
    /\ stopSignalled' = TRUE
    /\ sock' = IF sock \in {"connecting", "open"} THEN "closing" ELSE sock
    /\ UNCHANGED <<impl, dedupVars, mergeVars, promoVars, writerVars, fetchVars, procVars,
                   persistVars, chainVars, shutdownPc, pollPc, wsState, acceptedEvents,
                   pollsStarted, reconnectsScheduled, reconnectAttempts, reconnectDelay,
                   delays, subscribed, sentOnConn, subscribedAtClose, silence, shouldRun,
                   authReported, liveSockets, pendingTimers>>

\* 'message' of connectUserWs with an error field: the server rejects the
\* credentials sent on open; the handler prints the error and goes on
AuthErrorMessage ==
    /\ impl = "user_conn"
    /\ sock = "open"
    /\ ~authReported
    /\ authReported' = TRUE
    /\ silence' = 0
    /\ UNCHANGED <<notConnVars, liveSockets, pendingTimers, sock, reconnectAttempts, reconnectDelay, delays, subscribed,
                   sentOnConn, subscribedAtClose, shouldRun>>

----------------------------------------------------------------------------
(* Inactivity promotion of the Ethereum 1h collector *)

\* the collector with its upload checker, WS messages naming their slug
PromoImpls == {"eth_promo"}

\* the collector in the minutes before any slug can be inactive, with the WS
\* messages that need a slug lookup
BufferImpls == {"eth_buffer"}

CollectorImpls == PromoImpls \cup BufferImpls

\* the markets the collector follows
PromoSlugs == {"eth-1pm", "eth-2pm"}

\* the artifacts a market can have: its log, its merged-record file, its
\* price-history file; the collector itself only ever writes the log
Artifacts == {"log", "merged", "prices"}

SLUG_INACTIVITY_THRESHOLD_MS == 300000

UPLOAD_CHECK_INTERVAL_MS == 60000

BUFFER_FLUSH_INTERVAL_MS == 5000

\* the clock is observed one second before each timer tick and at the tick
CLOCK_STEP_MS == 1000

\* BUFFER_MAX_SIZE, 100 in the source, scaled down
BufferCap == 2

BUFFER_MAX_SIZE == BufferCap

\* the clock stops here
MaxClock == 360000

\* the clock of a run of the buffer stops here
MaxBufferClock == 65000

\* events received in one run
MaxPromoEvents == 3

\* promotion checks running at the same time (setInterval does not wait for
\* the check it started a minute ago)
MaxChecks == 2

\* WS handlers that may await a slug lookup at the same time in one run
MaxAwaiting == 1

\* axios.get(url, { timeout: 5000 }) of fetchSlugForConditionId
LOOKUP_TIMEOUT_MS == 5000

\* EventRecord: the n-th event the collector accepted, with its receivedAtMs
EventRecord(n, receivedAtMs) == [id |-> n, at |-> receivedAtMs]

InitPromoVars ==
    /\ now = 0
    /\ slugLastActivity = [s \in PromoSlugs |-> NoNum]
    /\ slugEventBuffers = [s \in PromoSlugs |-> <<>>]
    /\ localFiles = [s \in PromoSlugs |-> {}]
    /\ localLog = [s \in PromoSlugs |-> <<>>]
    /\ remoteFiles = [s \in PromoSlugs |-> {}]
    /\ remoteLog = [s \in PromoSlugs |-> <<>>]
    /\ checks = <<>>
    /\ lastCheckAt = 0
    /\ lastFlushAt = 0
    /\ promotedAt = [s \in PromoSlugs |-> NoNum]
    /\ promoEvents = 0
    /\ exited = FALSE
    /\ awaitingSlug = <<>>
    /\ bufferedSince = [s \in PromoSlugs |-> NoNum]

\* existingEvents.sort((a, b) => a.receivedAtMs - b.receivedAtMs), a stable sort
RECURSIVE insertByReceivedAt(_, _)
insertByReceivedAt(sorted, e) ==
    IF sorted = <<>> THEN <<e>>
    ELSE IF Last(sorted).at <= e.at THEN Append(sorted, e)
    ELSE Append(insertByReceivedAt(Prefix(sorted, Len(sorted) - 1), e), Last(sorted))

RECURSIVE sortByReceivedAt(_)
sortByReceivedAt(events) ==
    IF events = <<>> THEN <<>>
    ELSE insertByReceivedAt(sortByReceivedAt(Prefix(events, Len(events) - 1)), Last(events))

\* flushSlugBuffer, the file's content: the existing events and the buffer, sorted
flushedLog(logs, buffers, s) ==
    IF buffers[s] = <<>> THEN logs
    ELSE [logs EXCEPT ![s] = sortByReceivedAt(@ \o buffers[s])]

\* flushSlugBuffer when reading the existing file throws: existingEvents stays
\* empty and the file is written from the buffer alone
flushedLogUnread(logs, buffers, s) ==
    IF buffers[s] = <<>> THEN logs
    ELSE [logs EXCEPT ![s] = sortByReceivedAt(buffers[s])]

\* the file's content after flushSlugBuffer; `readOk`: the read does not throw
flushedLogRead(logs, buffers, s, readOk) ==
    IF readOk THEN flushedLog(logs, buffers, s) ELSE flushedLogUnread(logs, buffers, s)

\* flushSlugBuffer: a non-empty buffer is merged into the slug's file
flushedFiles(files, buffers, s) ==
    IF buffers[s] = <<>> THEN files ELSE [files EXCEPT ![s] = @ \cup {"log"}]

\* the buffer is kept
flushedBuffersNot(buffers, s) == buffers

\* slugEventBuffers.set(slug, [])
flushedBuffers(buffers, s) == [buffers EXCEPT ![s] = <<>>]

\* `(now - lastActivity) >= SLUG_INACTIVITY_THRESHOLD_MS` over the tracked slugs
inactiveSlugs(activity, t) ==
    {s \in PromoSlugs : activity[s] # NoNum /\ t - activity[s] >= SLUG_INACTIVITY_THRESHOLD_MS}

\* Array.from(slugLastActivity.keys())
activeSlugs(activity) == {s \in PromoSlugs : activity[s] # NoNum}

\* the slug stays tracked
forgetSlugNot(activity, s) == activity

\* slugLastActivity.delete(slug)
forgetSlug(activity, s) == [activity EXCEPT ![s] = NoNum]

\* a set of slugs as the array the loop walks
RECURSIVE SeqOfSet(_)
SeqOfSet(S) ==
    IF S = {} THEN <<>>
    ELSE LET x == CHOOSE y \in S : TRUE IN <<x>> \o SeqOfSet(S \ {x})

\* one running checkAndUploadInactiveSlugs: the slugs it has still to upload,
\* whether it is suspended at `await uploadToR2`, and the content it read
CheckRun(queue, uploading, content) ==
    [queue |-> queue, uploading |-> uploading, content |-> content]

\* the running checks after check k has finished with the head of its queue
checkAdvanced(running, k) ==
    IF Len(running[k].queue) = 1 THEN RemoveAt(running, k)
    ELSE [running EXCEPT ![k] = CheckRun(Tail(@.queue), FALSE, <<>>)]

\* addEventToBuffer: push, stamp the activity, flush a full buffer
addEventToBuffer(s, event, readOk) ==
    /\ slugLastActivity' = [slugLastActivity EXCEPT ![s] = now]
    /\ promotedAt' = [promotedAt EXCEPT ![s] = NoNum]
    /\ LET pushed == [slugEventBuffers EXCEPT ![s] = Append(@, event)]
       IN  IF Len(pushed[s]) >= BUFFER_MAX_SIZE
           THEN /\ localFiles' = flushedFiles(localFiles, pushed, s)
                /\ localLog' = flushedLogRead(localLog, pushed, s, readOk)
                /\ slugEventBuffers' = flushedBuffers(pushed, s)
           ELSE /\ localFiles' = localFiles
                /\ localLog' = localLog
                /\ slugEventBuffers' = pushed
    /\ bufferedSince' = [bufferedSince EXCEPT ![s] =
                            IF slugEventBuffers'[s] = <<>> THEN NoNum
                            ELSE IF slugEventBuffers[s] = <<>> THEN now ELSE @]

\* a trade of the activity poll, or a WS message that names its slug: the
\* event is stamped and buffered in one run of the handler; `readOk`: the
\* slug's file can be read if the buffer is flushed
AddEvent(s, readOk) ==
    /\ impl \in CollectorImpls
    /\ ~exited
    /\ promoEvents < MaxPromoEvents
    /\ promoEvents' = promoEvents + 1
    /\ addEventToBuffer(s, EventRecord(promoEvents + 1, now), readOk)
    /\ UNCHANGED <<notPromoVars, awaitingSlug, exited, now, remoteFiles, remoteLog, checks, lastCheckAt, lastFlushAt, r2Configured>>

\* a WS message that names only its condition id: receivedAtMs is taken,
\* then the handler awaits fetchSlugForConditionId
WsMessage(s) ==
    /\ impl \in BufferImpls
    /\ ~exited
    /\ promoEvents < MaxPromoEvents
    /\ Len(awaitingSlug) < MaxAwaiting
    /\ promoEvents' = promoEvents + 1
    /\ awaitingSlug' = Append(awaitingSlug, [slug |-> s, event |-> EventRecord(promoEvents + 1, now)])
    /\ UNCHANGED <<notPromoVars, exited, now, slugLastActivity, slugEventBuffers, localFiles, localLog,
                   remoteFiles, remoteLog, checks, lastCheckAt, lastFlushAt, promotedAt, bufferedSince,
                   r2Configured>>

\* the lookup answers: the handler goes on and buffers the event with the
\* receivedAtMs it took on arrival; without a slug the message is dropped
SlugResolved(i, found, readOk) ==
    /\ impl \in BufferImpls
    /\ ~exited
    /\ i \in 1..Len(awaitingSlug)
    /\ awaitingSlug' = RemoveAt(awaitingSlug, i)
    /\ IF found
       THEN addEventToBuffer(awaitingSlug[i].slug, awaitingSlug[i].event, readOk)
       ELSE UNCHANGED <<slugLastActivity, promotedAt, localFiles, localLog, slugEventBuffers, bufferedSince>>
    /\ UNCHANGED <<notPromoVars, exited, now, remoteFiles, remoteLog, checks, lastCheckAt, lastFlushAt,
                   promoEvents, r2Configured>>

\* every non-empty buffer flushed, as the flusher's tick does
allFlushedFiles == [s \in PromoSlugs |-> flushedFiles(localFiles, slugEventBuffers, s)[s]]

allFlushedLogs(unreadable) ==
    [s \in PromoSlugs |->
        flushedLogRead(localLog, slugEventBuffers, s, s \notin unreadable)[s]]

\* startBufferFlusher: the tick of the flush timer; `unreadable`: the slugs
\* whose file cannot be read at this tick
BufferFlusher(unreadable) ==
    /\ impl \in CollectorImpls
    /\ ~exited
    /\ now > 0
    /\ now % BUFFER_FLUSH_INTERVAL_MS = 0
    /\ lastFlushAt # now
    /\ lastFlushAt' = now
    /\ localFiles' = allFlushedFiles
    /\ localLog' = allFlushedLogs(unreadable)
    /\ slugEventBuffers' = [s \in PromoSlugs |-> <<>>]
    /\ bufferedSince' = [s \in PromoSlugs |-> NoNum]
    /\ UNCHANGED <<notPromoVars, awaitingSlug, exited, promotedAt, now, slugLastActivity, remoteFiles, remoteLog, checks,
                   lastCheckAt, promoEvents, r2Configured>>

\* the time at which the clock is observed next: one step before the next
\* tick of the check timer and at that tick, and, while events wait in a
\* buffer, one step before the next tick of the flush timer and at that tick
nextTime(t, waiting) ==
    LET off == t % UPLOAD_CHECK_INTERVAL_MS
        base == t - off
    IN  IF off = 0 /\ waiting THEN base + BUFFER_FLUSH_INTERVAL_MS - CLOCK_STEP_MS
        ELSE IF off = BUFFER_FLUSH_INTERVAL_MS - CLOCK_STEP_MS THEN base + BUFFER_FLUSH_INTERVAL_MS
        ELSE IF off = UPLOAD_CHECK_INTERVAL_MS - CLOCK_STEP_MS THEN base + UPLOAD_CHECK_INTERVAL_MS
        ELSE base + UPLOAD_CHECK_INTERVAL_MS - CLOCK_STEP_MS

\* a tick of the flush timer lies strictly between the two times
flushTickBetween(t1, t2) ==
    (t2 - 1) \div BUFFER_FLUSH_INTERVAL_MS > t1 \div BUFFER_FLUSH_INTERVAL_MS

\* the timers due at time t have fired
timersFired(t) ==
    /\ (t > 0 /\ t % BUFFER_FLUSH_INTERVAL_MS = 0) => lastFlushAt = t
    /\ (t > 0 /\ t % UPLOAD_CHECK_INTERVAL_MS = 0) => (lastCheckAt = t \/ Len(checks) >= MaxChecks)

\* time passes; the flush timer's ticks on the way flush the buffers
AdvanceClock ==
    /\ impl \in CollectorImpls
    /\ ~exited
    /\ timersFired(now)
    /\ LET t == nextTime(now, awaitingSlug # <<>> \/ \E s \in PromoSlugs : slugEventBuffers[s] # <<>>)
       IN
        /\ t <= (IF impl \in BufferImpls THEN MaxBufferClock ELSE MaxClock)
        /\ \A i \in 1..Len(awaitingSlug) : t <= awaitingSlug[i].event.at + LOOKUP_TIMEOUT_MS
        /\ now' = t
        /\ IF flushTickBetween(now, t)
           THEN /\ localFiles' = allFlushedFiles
                /\ localLog' = allFlushedLogs({})
                /\ slugEventBuffers' = [s \in PromoSlugs |-> <<>>]
                /\ bufferedSince' = [s \in PromoSlugs |-> NoNum]
                /\ lastFlushAt' = ((t - 1) \div BUFFER_FLUSH_INTERVAL_MS) * BUFFER_FLUSH_INTERVAL_MS
           ELSE UNCHANGED <<localFiles, localLog, slugEventBuffers, bufferedSince, lastFlushAt>>
    /\ UNCHANGED <<notPromoVars, awaitingSlug, exited, promotedAt, slugLastActivity, remoteFiles, remoteLog, checks, lastCheckAt,
                   promoEvents, r2Configured>>

\* checkAndUploadInactiveSlugs up to its loop: the inactive slugs are uploaded
\* only when some tracked slug is not inactive
StartCheck ==
    /\ impl \in CollectorImpls
    /\ ~exited
    /\ now > 0
    /\ now % UPLOAD_CHECK_INTERVAL_MS = 0
    /\ lastCheckAt # now
    /\ Len(checks) < MaxChecks
    /\ lastCheckAt' = now
    /\ LET inactive == inactiveSlugs(slugLastActivity, now)
           active == activeSlugs(slugLastActivity)
       IN  checks' = IF inactive # {} /\ Cardinality(active) > Cardinality(inactive)
                     THEN Append(checks, CheckRun(SeqOfSet(inactive), FALSE, <<>>))
                     ELSE checks
    /\ UNCHANGED <<notPromoVars, awaitingSlug, bufferedSince, exited, promotedAt, now, slugLastActivity, slugEventBuffers, localFiles, localLog,
                   remoteFiles, remoteLog, lastFlushAt, promoEvents, r2Configured>>

\* uploadSlugFileToR2 up to `await uploadToR2`: flush, look for the file, read it
UploadBegin(k) ==
    /\ impl \in PromoImpls
    /\ ~exited
    /\ k \in 1..Len(checks)
    /\ ~checks[k].uploading
    /\ LET s == Head(checks[k].queue)
           files == flushedFiles(localFiles, slugEventBuffers, s)
           logs == flushedLog(localLog, slugEventBuffers, s)
       IN  /\ localFiles' = files
           /\ localLog' = logs
           /\ slugEventBuffers' = flushedBuffers(slugEventBuffers, s)
           /\ bufferedSince' = [bufferedSince EXCEPT ![s] =
                                   IF slugEventBuffers'[s] = <<>> THEN NoNum ELSE @]
           /\ IF "log" \in files[s] /\ logs[s] # <<>> /\ r2Configured
              THEN checks' = [checks EXCEPT ![k] = CheckRun(@.queue, TRUE, logs[s])]
              ELSE checks' = checkAdvanced(checks, k)
    /\ UNCHANGED <<notPromoVars, awaitingSlug, exited, promotedAt, now, slugLastActivity, remoteFiles, remoteLog, lastCheckAt,
                   lastFlushAt, promoEvents, r2Configured>>

\* uploadToR2 returns: on success the log is deleted and the slug is forgotten
UploadDone(k, success) ==
    /\ impl \in PromoImpls
    /\ ~exited
    /\ k \in 1..Len(checks)
    /\ checks[k].uploading
    /\ checks' = checkAdvanced(checks, k)
    /\ LET s == Head(checks[k].queue)
       IN  IF success
           THEN /\ remoteFiles' = [remoteFiles EXCEPT ![s] = @ \cup {"log"}]
                /\ remoteLog' = [remoteLog EXCEPT ![s] = checks[k].content]
                /\ localFiles' = [localFiles EXCEPT ![s] = @ \ {"log"}]
                /\ localLog' = [localLog EXCEPT ![s] = <<>>]
                /\ slugLastActivity' = forgetSlug(slugLastActivity, s)
                /\ promotedAt' = [promotedAt EXCEPT ![s] = now]
           ELSE UNCHANGED <<remoteFiles, remoteLog, localFiles, localLog, slugLastActivity,
                            promotedAt>>
    /\ UNCHANGED <<notPromoVars, awaitingSlug, bufferedSince, exited, now, slugEventBuffers, lastCheckAt, lastFlushAt,
                   promoEvents, r2Configured>>

\* slugFileStreams: getSlugFileStream, the only place that adds a stream, is
\* never called, so the map has no keys
slugFileStreams == {}

\* shutdown, on SIGINT or SIGTERM: every buffer is flushed, the slugs of
\* slugFileStreams are uploaded, and the process exits
ShutdownCollector ==
    /\ impl \in PromoImpls
    /\ ~exited
    /\ localFiles' = allFlushedFiles
    /\ localLog' = allFlushedLogs({})
    /\ slugEventBuffers' = [s \in PromoSlugs |-> <<>>]
    /\ bufferedSince' = [s \in PromoSlugs |-> NoNum]
    /\ checks' = IF slugFileStreams = {} THEN <<>>
                 ELSE <<CheckRun(SeqOfSet(slugFileStreams), FALSE, <<>>)>>
    /\ exited' = (slugFileStreams = {})
    /\ UNCHANGED <<notPromoVars, awaitingSlug, now, slugLastActivity, remoteFiles, remoteLog, lastCheckAt,
                   lastFlushAt, promotedAt, promoEvents, r2Configured>>

----------------------------------------------------------------------------
(* Local-first JSONL writer of storeUserTradesRealtime (JsonlWriter) *)

WriterImpls == {"jsonl_writer"}

\* the slugs whose events.jsonl the collector writes
WriterSlugs == {"btc-a", "btc-b"}

\* currentSlug before the first write
NoSlug == "none"

SLUG_END_DELAY_MS == 20000

\* the writer's clock is observed every half end delay
WRITER_STEP_MS == 10000

\* the writer's clock stops here
MaxWriterClock == 60000

\* events written in one run
MaxWrites == 4

InitWriterVars ==
    /\ wClock = 0
    /\ currentSlug = NoSlug
    /\ writerActiveSlugs = {}
    /\ completedSlugs = [s \in WriterSlugs |-> NoNum]
    /\ eventsFile = [s \in WriterSlugs |-> <<>>]
    /\ r2Objects = [s \in WriterSlugs |-> <<>>]
    /\ inflight = <<>>
    /\ lastWriteAt = [s \in WriterSlugs |-> NoNum]
    /\ uploadLog = <<>>
    /\ written = 0

\* scheduleSlugUpload: the slug's timer is replaced by one that fires after
\* the end delay, and the slug leaves activeSlugs
scheduledTimers(timers, s, t) == [timers EXCEPT ![s] = t + SLUG_END_DELAY_MS]

\* trackSlug, the timers: a write to another slug than the current one
\* schedules the upload of the current one
trackedTimers(timers, current, s, t) ==
    IF current # NoSlug /\ current # s THEN scheduledTimers(timers, current, t) ELSE timers

\* trackSlug, activeSlugs: the previous slug leaves, the written one enters
trackedActive(active, current, s) ==
    (IF current # NoSlug /\ current # s THEN active \ {current} ELSE active) \cup {s}

\* JsonlWriter.write: append the line to the slug's events.jsonl, then track the slug
Write(s) ==
    /\ impl \in WriterImpls
    /\ written < MaxWrites
    /\ written' = written + 1
    /\ eventsFile' = [eventsFile EXCEPT ![s] = Append(@, written + 1)]
    /\ lastWriteAt' = [lastWriteAt EXCEPT ![s] = wClock]
    /\ completedSlugs' = trackedTimers(completedSlugs, currentSlug, s, wClock)
    /\ writerActiveSlugs' = trackedActive(writerActiveSlugs, currentSlug, s)
    /\ currentSlug' = s
    /\ UNCHANGED <<notWriterVars, wClock, r2Objects, inflight, uploadLog>>

\* one uploadToR2 call that has not returned: the slug and the content read
Upload(s, content) == [slug |-> s, content |-> content]

\* uploadSlugToR2 up to `await uploadToR2`: the uploads in flight afterwards
uploadStarted(uploads, files, s) ==
    IF r2Configured /\ files[s] # <<>> THEN Append(uploads, Upload(s, files[s])) ELSE uploads

\* the timer set by scheduleSlugUpload fires: the entry is deleted and
\* uploadSlugToR2 runs up to `await uploadToR2`
SlugTimer(s) ==
    /\ impl \in WriterImpls
    /\ completedSlugs[s] # NoNum
    /\ completedSlugs[s] <= wClock
    /\ completedSlugs' = [completedSlugs EXCEPT ![s] = NoNum]
    /\ inflight' = uploadStarted(inflight, eventsFile, s)
    /\ UNCHANGED <<notWriterVars, wClock, currentSlug, writerActiveSlugs, eventsFile, r2Objects,
                   lastWriteAt, uploadLog, written>>

\* uploadToR2 returns: on success the local file is deleted
WriterUploadDone(i, success) ==
    /\ impl \in WriterImpls
    /\ i \in 1..Len(inflight)
    /\ inflight' = RemoveAt(inflight, i)
    /\ uploadLog' = Append(uploadLog, [slug |-> inflight[i].slug, ok |-> success])
    /\ IF success
       THEN /\ r2Objects' = [r2Objects EXCEPT ![inflight[i].slug] = inflight[i].content]
            /\ eventsFile' = [eventsFile EXCEPT ![inflight[i].slug] = <<>>]
       ELSE UNCHANGED <<r2Objects, eventsFile>>
    /\ UNCHANGED <<notWriterVars, wClock, currentSlug, writerActiveSlugs, completedSlugs,
                   lastWriteAt, written>>

\* time passes, once the timers that are due have fired
WriterTick ==
    /\ impl \in WriterImpls
    /\ wClock + WRITER_STEP_MS <= MaxWriterClock
    /\ \A s \in WriterSlugs : completedSlugs[s] = NoNum \/ completedSlugs[s] > wClock
    /\ wClock' = wClock + WRITER_STEP_MS
    /\ UNCHANGED <<notWriterVars, currentSlug, writerActiveSlugs, completedSlugs, eventsFile,
                   r2Objects, inflight, lastWriteAt, uploadLog, written>>

----------------------------------------------------------------------------
(* Retries of the REST poller's fetch *)

\* fetchTrades of the unified collector, fetchUserActivity of the Ethereum 1h
\* collector, fetchTrades of scripts/storeUserTradesRealtime.ts
FetchImpls == {"fetch_unified", "fetch_eth", "fetch_script"}

\* what a failed request can be: HTTP 429, no response at all, any other error
ErrorKinds == {"rate_limit", "network", "other"}

NoError == "none"

MAX_BACKOFF_MS == 60000

RATE_LIMIT_BASE_DELAY_MS == 5000

NETWORK_BASE_DELAY_MS == 1000

ETH_RATE_LIMIT_CAP_MS == 5000

MAX_RETRIES == 5

SCRIPT_MAX_RETRIES == 3

\* calls of the fetch function in one run
MaxPolls == 2

\* maxRetries of the fetch function at hand
maxRetries == IF impl = "fetch_script" THEN SCRIPT_MAX_RETRIES ELSE MAX_RETRIES

\* the sleep before the next attempt after HTTP 429, NoNum when the function
\* does not sleep for it
rateLimitDelay(attempt) ==
    CASE impl = "fetch_unified" ->
            Min(MAX_BACKOFF_MS, RATE_LIMIT_BASE_DELAY_MS * 2^(attempt - 1))
      [] impl = "fetch_eth" ->
            IF attempt < maxRetries
            THEN Min(ETH_RATE_LIMIT_CAP_MS, NETWORK_BASE_DELAY_MS * 2^(attempt - 1))
            ELSE NoNum
      [] OTHER -> NoNum

\* the sleep before the next attempt after a network error, as the function
\* computes it on an attempt that is not the last
networkDelay(attempt) ==
    IF impl = "fetch_eth" THEN NETWORK_BASE_DELAY_MS * attempt
    ELSE NETWORK_BASE_DELAY_MS * 2^(attempt - 1)

\* the sleep the catch block takes for the error, NoNum when it does not retry
retryDelay(kind, attempt) ==
    CASE kind = "rate_limit" -> rateLimitDelay(attempt)
      [] kind = "network" -> IF attempt < maxRetries THEN networkDelay(attempt) ELSE NoNum
      [] OTHER -> NoNum

InitFetchVars ==
    /\ fetchPhase = "request"
    /\ fetchAttempt = 1
    /\ fetchError = NoError
    /\ backoffLog = <<>>
    /\ polls = 1

\* axios.get resolves: the function returns the trades
FetchSucceeds ==
    /\ impl \in FetchImpls
    /\ fetchPhase = "request"
    /\ fetchPhase' = "returned"
    /\ fetchError' = NoError
    /\ UNCHANGED <<notFetchVars, fetchAttempt, backoffLog, polls>>

\* axios.get rejects: the catch block sleeps and retries, throws, or (the
\* Ethereum 1h collector) returns no trades
FetchFails(kind) ==
    /\ impl \in FetchImpls
    /\ fetchPhase = "request"
    /\ fetchError' = kind
    /\ LET delay == retryDelay(kind, fetchAttempt)
       IN  IF delay # NoNum
           THEN /\ fetchPhase' = "sleep"
                /\ backoffLog' = Append(backoffLog,
                                        [kind |-> kind, attempt |-> fetchAttempt, delay |-> delay])
           ELSE /\ fetchPhase' = IF impl = "fetch_eth" THEN "returned" ELSE "thrown"
                /\ backoffLog' = backoffLog
    /\ UNCHANGED <<notFetchVars, fetchAttempt, polls>>

\* the sleep is over: `continue` to the next attempt, or out of the loop
BackoffDone ==
    /\ impl \in FetchImpls
    /\ fetchPhase = "sleep"
    /\ fetchError' = NoError
    /\ IF fetchAttempt < maxRetries
       THEN fetchPhase' = "request" /\ fetchAttempt' = fetchAttempt + 1
       ELSE fetchPhase' = "returned" /\ fetchAttempt' = fetchAttempt
    /\ UNCHANGED <<notFetchVars, backoffLog, polls>>

\* the polling loop calls the fetch function again
NextPoll ==
    /\ impl \in FetchImpls
    /\ fetchPhase \in {"returned", "thrown"}
    /\ polls < MaxPolls
    /\ polls' = polls + 1
    /\ fetchPhase' = "request"
    /\ fetchAttempt' = 1
    /\ fetchError' = NoError
    /\ UNCHANGED <<notFetchVars, backoffLog>>

----------------------------------------------------------------------------
(* Process lifetime: the mains and the Fly.io startup script *)

\* main of storeUserTradesRealtime, of the Ethereum 1h collector, of the
\* merger, and the startup script that spawns collector and merger
ProcImpls == {"collector_main", "eth_main", "merger_main", "fly_startup"}

\* where a steady-state error comes from
ErrorSources == {"connection", "poll", "child"}

\* errors of one source printed in one run
MaxLoggedErrors == 3

\* the exit code a child process reports, NoNum (null) when a signal killed it
ChildCodes == {0, 1, NoNum}

\* the processes the startup script spawns: the collector with its connectors
\* and the merge engine
Children == {"collector", "merger"}

\* the name the 'exit' listener of a child passes to handleExit
listenerName(child) == IF child = "collector" THEN "Collector" ELSE "Merger"

\* `if (name === 'collector') merger.kill(...) else collector.kill(...)`
killTarget(name) == IF name = "collector" THEN "merger" ELSE "collector"

\* child.kill('SIGTERM'): a running child is signalled, an exited one is not
kill(procs, child) ==
    [procs EXCEPT ![child] = IF @ = "running" THEN "signalled" ELSE @]

InitProcVars ==
    /\ procPhase = "starting"
    /\ exitCode = NoNum
    /\ exitedFrom = "none"
    /\ configChecked = "unchecked"
    /\ loggedErrors = [source \in ErrorSources |-> 0]
    /\ children = [child \in Children |-> "running"]

\* process.exit(code)
exit(code) ==
    /\ procPhase' = "exited"
    /\ exitCode' = code
    /\ exitedFrom' = procPhase

\* `code || 1` of handleExit
codeOrOne(code) == IF code = 0 \/ code = NoNum THEN 1 ELSE code

\* the start of main: the account identifier is validated (the collector and
\* the merger test the --user argument, the Ethereum collector's
\* getUserAddress throws); the startup script has a default for every setting
Startup(valid) ==
    /\ impl \in ProcImpls
    /\ procPhase = "starting"
    /\ impl = "fly_startup" => valid
    /\ configChecked' = IF valid THEN "valid" ELSE "invalid"
    /\ IF valid
       THEN /\ procPhase' = "running"
            /\ UNCHANGED <<exitCode, exitedFrom>>
       ELSE exit(1)
    /\ UNCHANGED <<notProcVars, loggedErrors, children>>

\* a connection fails, a poll fails, the merger's logger process reports an
\* error: the catch block or the listener prints it
SteadyStateError(source) ==
    /\ impl \in ProcImpls \ {"fly_startup"}
    /\ procPhase = "running"
    /\ source = "child" => impl = "merger_main"
    /\ loggedErrors[source] < MaxLoggedErrors
    /\ loggedErrors' = [loggedErrors EXCEPT ![source] = @ + 1]
    /\ UNCHANGED <<notProcVars, procPhase, exitCode, exitedFrom, configChecked, children>>

\* collector.on('exit') / merger.on('exit') of the startup script: handleExit
ChildExit(child, code) ==
    /\ impl = "fly_startup"
    /\ procPhase \in {"running", "stopping"}
    /\ children[child] # "exited"
    /\ loggedErrors' = [loggedErrors EXCEPT !["child"] = Min(@ + 1, MaxLoggedErrors)]
    /\ children' = kill([children EXCEPT ![child] = "exited"], killTarget(listenerName(child)))
    /\ exit(codeOrOne(code))
    /\ UNCHANGED <<notProcVars, configChecked>>

\* collector.on('error') / merger.on('error') of the startup script
ChildError ==
    /\ impl = "fly_startup"
    /\ procPhase \in {"running", "stopping"}
    /\ loggedErrors' = [loggedErrors EXCEPT !["child"] = Min(@ + 1, MaxLoggedErrors)]
    /\ exit(1)
    /\ UNCHANGED <<notProcVars, configChecked, children>>

\* SIGINT / SIGTERM: the mains exit with 0 when their handler is done, the
\* startup script signals its children and sets a timer
Signal ==
    /\ impl \in ProcImpls
    /\ procPhase = "running"
    /\ IF impl = "fly_startup"
       THEN /\ procPhase' = "stopping"
            /\ children' = kill(kill(children, "collector"), "merger")
            /\ UNCHANGED <<exitCode, exitedFrom>>
       ELSE /\ exit(0)
            /\ UNCHANGED children
    /\ UNCHANGED <<notProcVars, configChecked, loggedErrors>>

\* the startup script's timer: process.exit(0) ten seconds after the signal
ForceExit ==
    /\ impl = "fly_startup"
    /\ procPhase = "stopping"
    /\ exit(0)
    /\ UNCHANGED <<notProcVars, configChecked, loggedErrors, children>>

----------------------------------------------------------------------------
(* Persisted dedup state of storeUserTradesRealtime *)

PersistImpls == {"state_persist"}

\* the connectors of one process that call loadState
PersistConns == {"user_ws", "market_ws", "rest_poll"}

\* dedup keys offered to the connectors, fewer than the capacity of a store
PersistKeys == {1, 2}

\* restarts of the process in one run of the model
MaxRuns == 2

InitPersistVars ==
    /\ connState = [c \in PersistConns |-> {}]
    /\ persisted = {}
    /\ acceptedBefore = [c \in PersistConns |-> {}]
    /\ run = 1

\* the market connector keeps no PersistedState in unified mode
hasState(c) == ~(c = "market_ws" /\ unified)

\* loadState: the stored object, or an empty state without R2 or in unified mode
loadState(c) == IF r2Configured /\ hasState(c) THEN persisted ELSE {}

\* saveState: the connector's whole state object replaces the stored one
saveState(c, keys) == IF r2Configured /\ hasState(c) THEN keys ELSE persisted

\* a connector accepts a key its store does not hold and saves its state
AcceptKey(c, k) ==
    /\ impl \in PersistImpls
    /\ k \notin connState[c]
    /\ connState' = [connState EXCEPT ![c] = @ \cup {k}]
    /\ persisted' = saveState(c, connState[c] \cup {k})
    /\ acceptedBefore' = IF run = 1 THEN [acceptedBefore EXCEPT ![c] = @ \cup {k}]
                          ELSE acceptedBefore
    /\ UNCHANGED <<notPersistVars, run, unified>>

\* the process restarts: every connector loads its state again
Restart ==
    /\ impl \in PersistImpls
    /\ run < MaxRuns
    /\ run' = run + 1
    /\ connState' = [c \in PersistConns |-> loadState(c)]
    /\ UNCHANGED <<notPersistVars, persisted, acceptedBefore, unified>>

----------------------------------------------------------------------------
(* Shutdown of the collectors *)

\* storeUserTradesRealtime with its writer, the Ethereum 1h collector, and
\* scripts/storeUserTradesRealtime.ts
StopImpls == {"collector_stop", "eth_stop", "script_stop"}

\* the collectors that have the flag shouldRun
FlagImpls == {"collector_stop", "script_stop"}

\* events, polls and reconnects of one run
MaxStopEvents == 2

MaxStopPolls == 2

MaxStopReconnects == 2

InitStopVars ==
    /\ stopSignalled = FALSE
    /\ shutdownPc = "running"
    /\ pollPc = "sleeping"
    /\ wsState = "open"
    /\ acceptedEvents = 0
    /\ pollsStarted = 0
    /\ reconnectsScheduled = 0

\* 'message' of a WS connector: the record is written; no handler reads shouldRun
StopWsMessage ==
    /\ impl \in StopImpls
    /\ shutdownPc # "exited"
    /\ wsState = "open"
    /\ acceptedEvents < MaxStopEvents
    /\ acceptedEvents' = acceptedEvents + 1
    /\ UNCHANGED <<notStopVars, shouldRun, stopSignalled, shutdownPc, pollPc, wsState,
                   pollsStarted, reconnectsScheduled>>

\* 'close' of the socket: `if (shouldRun) setTimeout(connect, delay)` in the
\* collector, an unconditional timer in the Ethereum collector, only a log
\* line in the script
StopWsClose ==
    /\ impl \in StopImpls
    /\ shutdownPc # "exited"
    /\ wsState = "open"
    /\ LET schedules == CASE impl = "collector_stop" -> shouldRun
                           [] impl = "eth_stop" -> TRUE
                           [] OTHER -> FALSE
       IN  /\ schedules => reconnectsScheduled < MaxStopReconnects
           /\ wsState' = IF schedules THEN "waiting" ELSE "closed"
           /\ reconnectsScheduled' = IF schedules THEN reconnectsScheduled + 1
                                     ELSE reconnectsScheduled
    /\ UNCHANGED <<notStopVars, shouldRun, stopSignalled, shutdownPc, pollPc, acceptedEvents,
                   pollsStarted>>

\* the reconnect timer fires: connect() returns at once when shouldRun is false
StopReconnectTimer ==
    /\ impl \in StopImpls
    /\ shutdownPc # "exited"
    /\ wsState = "waiting"
    /\ wsState' = IF impl = "collector_stop" /\ ~shouldRun THEN "closed" ELSE "open"
    /\ UNCHANGED <<notStopVars, shouldRun, stopSignalled, shutdownPc, pollPc, acceptedEvents,
                   pollsStarted, reconnectsScheduled>>

\* the sleep of the polling loop ends: `while (shouldRun)` / `while (true)`
PollLoopTest ==
    /\ impl \in StopImpls
    /\ shutdownPc # "exited"
    /\ pollPc = "sleeping"
    /\ IF impl \in FlagImpls /\ ~shouldRun
       THEN /\ pollPc' = "done"
            /\ UNCHANGED pollsStarted
       ELSE /\ pollsStarted < MaxStopPolls
            /\ pollPc' = "fetching"
            /\ pollsStarted' = pollsStarted + 1
    /\ UNCHANGED <<notStopVars, shouldRun, stopSignalled, shutdownPc, wsState, acceptedEvents,
                   reconnectsScheduled>>

\* the fetch of the loop answers: its trades are appended, then the loop sleeps;
\* `fresh`: the response holds a trade that was not seen yet
PollResponse(fresh) ==
    /\ impl \in StopImpls
    /\ shutdownPc # "exited"
    /\ pollPc = "fetching"
    /\ fresh => acceptedEvents < MaxStopEvents
    /\ acceptedEvents' = IF fresh THEN acceptedEvents + 1 ELSE acceptedEvents
    /\ pollPc' = "sleeping"
    /\ UNCHANGED <<notStopVars, shouldRun, stopSignalled, shutdownPc, wsState, pollsStarted,
                   reconnectsScheduled>>

\* SIGINT / SIGTERM: the collector clears shouldRun and awaits the flush of
\* its writer; the script only clears shouldRun; the shutdown of the Ethereum
\* collector has nothing to wait for and exits in the same turn
StopSignal ==
    /\ impl \in StopImpls
    /\ shutdownPc = "running"
    /\ ~stopSignalled
    /\ stopSignalled' = TRUE
    /\ shouldRun' = IF impl \in FlagImpls THEN FALSE ELSE shouldRun
    /\ shutdownPc' = CASE impl = "collector_stop" -> "flushing"
                        [] impl = "eth_stop" -> "exited"
                        [] OTHER -> "running"
    /\ UNCHANGED <<notStopVars, pollPc, wsState, acceptedEvents, pollsStarted,
                   reconnectsScheduled>>

\* `await globalWriter.flush()` returns: every upload has answered
FlushDone ==
    /\ impl = "collector_stop"
    /\ shutdownPc = "flushing"
    /\ shutdownPc' = "grace"
    /\ UNCHANGED <<notStopVars, shouldRun, stopSignalled, pollPc, wsState, acceptedEvents,
                   pollsStarted, reconnectsScheduled>>

\* the two seconds after the flush are over: process.exit(0)
GraceTimer ==
    /\ impl = "collector_stop"
    /\ shutdownPc = "grace"
    /\ shutdownPc' = "exited"
    /\ UNCHANGED <<notStopVars, shouldRun, stopSignalled, pollPc, wsState, acceptedEvents,
                   pollsStarted, reconnectsScheduled>>

----------------------------------------------------------------------------
(* On-chain monitor: HTTP block polling *)

ChainImpls == {"onchain_http"}

\* blocks mined after the monitor started
MaxBlock == 3

\* timer callbacks suspended at the same time
MaxTicks == 2

\* scans of one block that are counted
MaxScans == 2

Blocks == 1..MaxBlock

InitChainVars ==
    /\ chainHead = 0
    /\ lastBlock = 0
    /\ chainTicks = <<>>
    /\ scanned = [b \in Blocks |-> 0]

\* the chain grows by a block
NewBlock ==
    /\ impl \in ChainImpls
    /\ chainHead < MaxBlock
    /\ chainHead' = chainHead + 1
    /\ UNCHANGED <<notChainVars, lastBlock, chainTicks, scanned>>

\* a callback of the interval timer after `await provider.getBlockNumber()`:
\* it returns when `bn <= last`, else its loop starts at `last + 1`; the timer
\* does not wait for the callback before it
TickStart ==
    /\ impl \in ChainImpls
    /\ Len(chainTicks) < MaxTicks
    /\ chainHead > lastBlock
    /\ chainTicks' = Append(chainTicks, [b |-> lastBlock + 1, bn |-> chainHead])
    /\ UNCHANGED <<notChainVars, chainHead, lastBlock, scanned>>

\* `await provider.getBlockWithTransactions(b)` of callback i answers: the
\* block is scanned and the loop goes on, after the last block `last = bn`;
\* when the fetch throws the catch block ends the callback
BlockFetched(i, ok) ==
    /\ impl \in ChainImpls
    /\ i \in 1..Len(chainTicks)
    /\ LET tick == chainTicks[i]
       IN  IF ~ok
           THEN /\ chainTicks' = RemoveAt(chainTicks, i)
                /\ UNCHANGED <<lastBlock, scanned>>
           ELSE /\ scanned' = [scanned EXCEPT ![tick.b] = Min(@ + 1, MaxScans)]
                /\ IF tick.b = tick.bn
                   THEN /\ lastBlock' = tick.bn
                        /\ chainTicks' = RemoveAt(chainTicks, i)
                   ELSE /\ chainTicks' = [chainTicks EXCEPT ![i].b = @ + 1]
                        /\ UNCHANGED lastBlock
    /\ UNCHANGED <<notChainVars, chainHead>>

----------------------------------------------------------------------------
(* Specifications *)

InitDedup ==
    /\ impl \in DedupImpls
    /\ InitDedupVars
    /\ InitMergeVars
    /\ slug = "eth-window"
    /\ InitConnVars
    /\ InitPromoVars
    /\ r2Configured = TRUE
    /\ InitWriterVars
    /\ InitFetchVars
    /\ InitProcVars
    /\ InitPersistVars
    /\ InitStopVars
    /\ InitChainVars
    /\ unified = TRUE

NextDedup ==
    \/ \E k \in Keys : WsMessageLookup(k)
    \/ \E k \in Keys : WsMessageDirect(k)
    \/ \E i \in 1..MaxInflight : WsLookupDone(i)
    \/ \E i \in 1..MaxInflight : WsSaveDone(i)
    \/ \E b \in Batches : RestPollBatch(b)
    \/ \E b \in Batches : EthPollBatch(b)
    \/ \E b \in Batches : DualPollBatch(b)

SpecDedup == InitDedup /\ [][NextDedup]_vars

InitMerge ==
    /\ impl \in MergeImpls
    /\ InitDedupVars
    /\ InitMergeVars
    /\ InitConnVars
    /\ InitPromoVars
    /\ r2Configured = TRUE
    /\ InitWriterVars
    /\ InitFetchVars
    /\ InitProcVars
    /\ InitPersistVars
    /\ InitStopVars
    /\ InitChainVars
    /\ unified = TRUE

NextMerge ==
    \/ \E i \in 1..Len(Feed) : AppendEvent(i)
    \/ \E elapsed, writeOk \in BOOLEAN : WatchIteration(elapsed, writeOk)
    \/ WatchIterationRaw
    \/ RestartMerger

SpecMerge == InitMerge /\ [][NextMerge]_vars

\* the summary-building merger next to a collector that promotes the log
\* the market whose log is promoted
PromotedSlug == "eth-fallback"

InitMergePromoted == InitMerge /\ impl = "merge_summary" /\ slug = PromotedSlug

NextMergePromoted ==
    \/ \E i \in 1..Len(Feed) : AppendEvent(i)
    \/ \E elapsed, writeOk \in BOOLEAN : WatchIteration(elapsed, writeOk)
    \/ PromoteLog

\* the summary-building merger and the signal that ends it
InitMergeStop == InitMerge /\ impl = "merge_summary"

NextMergeStop ==
    \/ \E i \in 1..Len(Feed) : AppendEvent(i)
    \/ \E elapsed, writeOk \in BOOLEAN : MergerPass(elapsed, writeOk)
    \/ StopMerger

SpecMergeStop == InitMergeStop /\ [][NextMergeStop]_vars

\* a pass of the watch loop changes the state: it is the first pass, the
\* file has grown, or a queued result is flushed
WatchIterationEnabled == isFirstRun \/ fileToProcess \/ pendingMerges # <<>>

SpecMergePromoted == InitMergePromoted /\ [][NextMergePromoted]_vars

\* the watch loop never stops: `while (true)` with a sleep between two passes.
\* The fairness condition is weak fairness of the watch iteration, with its
\* enabling condition written out
SpecMergePromotedLive ==
    /\ SpecMergePromoted
    /\ \/ []<>(~WatchIterationEnabled)
       \/ []<><<\E elapsed, writeOk \in BOOLEAN : WatchIteration(elapsed, writeOk)>>_vars

\* the logs the summary-building merger is started on: one or two trades at
\* the same second and the snapshots collected around it
ContextTradeTime == Feeds["eth-window"][3].t

\* snapshots at the very millisecond of the trade
MaxAtTrade == 2

\* snapshots after the trade
MaxAfterTrade == 1

\* the numbers of snapshots before the trade: a few, or around the cap
CapMargin == 2

FewBefore == 0..CapMargin

ManyBefore == (MAX_RAW_EVENTS_PER_TRADE - CapMargin)..(MAX_RAW_EVENTS_PER_TRADE + 1)

\* distance of the snapshots from the trade, ms: in the primary window, in
\* reach of the widened window, near enough to widen but outside the clamp,
\* too far to widen
ContextOffsets == {0, 8000, 20000, 40000}

contextSnapshots(nb, na, nf, off) ==
    [i \in 1..(nb + na + nf) |->
        LET t == ContextTradeTime + off +
                   (IF i <= nb THEN i - nb - 1 ELSE IF i <= nb + na THEN 0 ELSE i - nb - na)
        IN  Ev("market_ws", "price_change", t, t + 10, "", 5000 + i, NoNum)]

contextTrades(two) ==
    <<Ev("rest_poll", "trade", ContextTradeTime, ContextTradeTime + 900, "0xdef", NoNum, 4900)>>
    \o (IF two
        THEN <<Ev("rest_poll", "trade", ContextTradeTime, ContextTradeTime + 950, "0xabc",
                  NoNum, 5100)>>
        ELSE <<>>)

ContextLogs ==
    {contextTrades(two) \o contextSnapshots(nb, na, nf, off) :
        two \in BOOLEAN, nb \in FewBefore, na \in 0..MaxAtTrade,
        nf \in 0..MaxAfterTrade, off \in ContextOffsets}
    \cup {contextTrades(FALSE) \o contextSnapshots(nb, na, 0, 0) :
              nb \in ManyBefore, na \in 0..MaxAtTrade}

InitContext ==
    /\ impl \in ContextImpls
    /\ InitDedupVars
    /\ slug = "eth-window"
    /\ eventsLog \in ContextLogs
    /\ fed = 0
    /\ mergedFile = <<>>
    /\ mergedOver = 0
    /\ pendingMerges = <<>>
    /\ lastLineCount = 0
    /\ isFirstRun = TRUE
    /\ restarts = 0
    /\ passed = {}
    /\ InitConnVars
    /\ InitPromoVars
    /\ r2Configured = TRUE
    /\ InitWriterVars
    /\ InitFetchVars
    /\ InitProcVars
    /\ InitPersistVars
    /\ InitStopVars
    /\ InitChainVars
    /\ unified = TRUE

NextContext == \E elapsed, writeOk \in BOOLEAN : WatchIteration(elapsed, writeOk)

SpecContext == InitContext /\ [][NextContext]_vars

InitConn ==
    /\ impl \in ConnImpls
    /\ InitDedupVars
    /\ InitMergeVars
    /\ slug = "eth-window"
    /\ InitConnVars
    /\ InitPromoVars
    /\ r2Configured = TRUE
    /\ InitWriterVars
    /\ InitFetchVars
    /\ InitProcVars
    /\ InitPersistVars
    /\ InitStopVars
    /\ InitChainVars
    /\ unified = TRUE

NextConn ==
    \/ OpenHandler
    \/ MessageHandler
    \/ PingTimer
    \/ QuietInterval
    \/ ErrorHandler
    \/ CloseHandler
    \/ ReconnectTimer
    \/ AuthErrorMessage
    \/ \E topic \in Topics : Subscribe(topic)
    \/ Shutdown
    \/ Disconnect

SpecConn == InitConn /\ [][NextConn]_vars

\* a timer that has been set fires: setTimeout(() => connect(), delay)
SpecConnLive == SpecConn /\ WF_vars(ReconnectTimer)

InitPromo ==
    /\ impl \in PromoImpls
    /\ InitDedupVars
    /\ InitMergeVars
    /\ slug = "eth-window"
    /\ InitConnVars
    /\ InitPromoVars
    /\ r2Configured \in BOOLEAN
    /\ InitWriterVars
    /\ InitFetchVars
    /\ InitProcVars
    /\ InitPersistVars
    /\ InitStopVars
    /\ InitChainVars
    /\ unified = TRUE

NextPromo ==
    \/ \E s \in PromoSlugs : AddEvent(s, TRUE)
    \/ BufferFlusher({})
    \/ AdvanceClock
    \/ StartCheck
    \/ \E k \in 1..MaxChecks : UploadBegin(k)
    \/ \E k \in 1..MaxChecks, success \in BOOLEAN : UploadDone(k, success)
    \/ ShutdownCollector

SpecPromo == InitPromo /\ [][NextPromo]_vars

InitBuffer ==
    /\ impl \in BufferImpls
    /\ InitDedupVars
    /\ InitMergeVars
    /\ slug = "eth-window"
    /\ InitConnVars
    /\ InitPromoVars
    /\ r2Configured = TRUE
    /\ InitWriterVars
    /\ InitFetchVars
    /\ InitProcVars
    /\ InitPersistVars
    /\ InitStopVars
    /\ InitChainVars
    /\ unified = TRUE

NextBuffer ==
    \/ \E s \in PromoSlugs, readOk \in BOOLEAN : AddEvent(s, readOk)
    \/ \E s \in PromoSlugs : WsMessage(s)
    \/ \E i \in 1..MaxAwaiting, found, readOk \in BOOLEAN : SlugResolved(i, found, readOk)
    \/ \E unreadable \in SUBSET PromoSlugs : BufferFlusher(unreadable)
    \/ AdvanceClock
    \/ StartCheck

SpecBuffer == InitBuffer /\ [][NextBuffer]_vars

InitWriter ==
    /\ impl \in WriterImpls
    /\ InitDedupVars
    /\ InitMergeVars
    /\ slug = "eth-window"
    /\ InitConnVars
    /\ InitPromoVars
    /\ r2Configured \in BOOLEAN
    /\ InitWriterVars
    /\ InitFetchVars
    /\ InitProcVars
    /\ InitPersistVars
    /\ InitStopVars
    /\ InitChainVars
    /\ unified = TRUE

NextWriter ==
    \/ \E s \in WriterSlugs : Write(s)
    \/ \E s \in WriterSlugs : SlugTimer(s)
    \/ \E i \in 1..MaxWrites, success \in BOOLEAN : WriterUploadDone(i, success)
    \/ WriterTick

SpecWriter == InitWriter /\ [][NextWriter]_vars

InitFetch ==
    /\ impl \in FetchImpls
    /\ InitDedupVars
    /\ InitMergeVars
    /\ slug = "eth-window"
    /\ InitConnVars
    /\ InitPromoVars
    /\ r2Configured = TRUE
    /\ InitWriterVars
    /\ InitFetchVars
    /\ InitProcVars
    /\ InitPersistVars
    /\ InitStopVars
    /\ InitChainVars
    /\ unified = TRUE

NextFetch ==
    \/ FetchSucceeds
    \/ \E kind \in ErrorKinds : FetchFails(kind)
    \/ BackoffDone
    \/ NextPoll

SpecFetch == InitFetch /\ [][NextFetch]_vars

\* C1: a delivery is accepted by the check-and-insert of a WS message handler
\* exactly when its dedup key is not resident at that moment, and an accepted key
\* is resident afterwards: of two deliveries of one key the second is rejected
\* while the key is resident, however the handlers interleave at their awaits.
C1_AcceptedOnceWhileResident ==
    [][lastOutcome'.flip # lastOutcome.flip =>
          /\ lastOutcome'.accepted <=> lastOutcome'.key \notin seenSet
          /\ lastOutcome'.accepted => lastOutcome'.key \in seenSet']_vars

\* C1 witness: a duplicate was rejected while the handler that accepted the first
\* delivery of the same key is still suspended at `await saveState`
C1_Witness ==
    /\ lastOutcome.key # 0
    /\ ~lastOutcome.accepted
    /\ \E i \in 1..Len(handlers) :
           handlers[i].key = lastOutcome.key /\ handlers[i].pc = "saving"

\* C6: the store never holds more than its capacity, and once NumKeys distinct
\* keys (capacity plus half) were inserted the evicted keys are exactly the
\* NumKeys - capacity oldest in insertion order.
C6_DedupBound ==
    /\ Len(seenOrder) <= MAX_SEEN_TX
    /\ Cardinality(seenSet) <= MAX_SEEN_TX
    /\ (Len(insertLog) = NumKeys /\ IsDistinct(insertLog)) =>
           Range(insertLog) \ seenSet = Range(Prefix(insertLog, NumKeys - MAX_SEEN_TX))

\* C6, restricted to the stores that prune the overflow (seenTxOrder, wsSeenOrder)
C6_DedupBoundOverflowPruning == impl \notin {"eth_poll", "dual_poll"} => C6_DedupBound

InitProc ==
    /\ impl \in ProcImpls
    /\ InitDedupVars
    /\ InitMergeVars
    /\ slug = "eth-window"
    /\ InitConnVars
    /\ InitPromoVars
    /\ r2Configured = TRUE
    /\ InitWriterVars
    /\ InitFetchVars
    /\ InitProcVars
    /\ InitPersistVars
    /\ InitStopVars
    /\ InitChainVars
    /\ unified = TRUE

NextProc ==
    \/ \E valid \in BOOLEAN : Startup(valid)
    \/ \E source \in ErrorSources : SteadyStateError(source)
    \/ \E child \in Children, code \in ChildCodes : ChildExit(child, code)
    \/ ChildError
    \/ Signal
    \/ ForceExit

SpecProc == InitProc /\ [][NextProc]_vars

\* C22: the records of a connector are written in the order in which the
\* socket delivered their frames.
C22_EmittedInDeliveryOrder ==
    \A i, j \in 1..Len(emitLog) : i < j => emitLog[i] < emitLog[j]

\* C22 while no handler awaits a lookup or a save: the frames handled in one
\* go are written in delivery order.
C22_EmittedInOrderWithoutAwait ==
    [][(handlers = <<>> /\ handlers' = <<>> /\ emitLog' # emitLog) =>
           (emitLog' = Append(emitLog, frames') /\ frames' = frames + 1)]_vars

InitPersist ==
    /\ impl \in PersistImpls
    /\ InitDedupVars
    /\ InitMergeVars
    /\ slug = "eth-window"
    /\ InitConnVars
    /\ InitPromoVars
    /\ r2Configured \in BOOLEAN
    /\ InitWriterVars
    /\ InitFetchVars
    /\ InitProcVars
    /\ InitPersistVars
    /\ InitStopVars
    /\ InitChainVars
    /\ unified \in BOOLEAN

NextPersist ==
    \/ \E c \in PersistConns, k \in PersistKeys : AcceptKey(c, k)
    \/ Restart

SpecPersist == InitPersist /\ [][NextPersist]_vars

\* C24: a step that evicts keys from the store leaves it holding the newest
\* half of the capacity, in insertion order: the oldest keys go in one bulk
\* step and the store is not left full.
C24_EvictsOldestHalf ==
    [][seenSet \ seenSet' # {} =>
          /\ Len(seenOrder') = SEEN_TRADES_KEEP
          /\ seenOrder' = Suffix(insertLog', SEEN_TRADES_KEEP)
          /\ seenSet' = Range(seenOrder')]_vars

\* C24 for seenTrades of the Ethereum 1h collector
C24_SeenTradesEvictsOldestHalf ==
    [][(impl = "eth_poll" /\ seenSet \ seenSet' # {}) =>
          /\ Len(seenOrder') = SEEN_TRADES_KEEP
          /\ seenOrder' = Suffix(insertLog', SEEN_TRADES_KEEP)
          /\ seenSet' = Range(seenOrder')]_vars

InitStop ==
    /\ impl \in StopImpls
    /\ InitDedupVars
    /\ InitMergeVars
    /\ slug = "eth-window"
    /\ InitConnVars
    /\ InitPromoVars
    /\ r2Configured = TRUE
    /\ InitWriterVars
    /\ InitFetchVars
    /\ InitProcVars
    /\ InitPersistVars
    /\ InitStopVars
    /\ InitChainVars
    /\ unified = TRUE

NextStop ==
    \/ StopWsMessage
    \/ StopWsClose
    \/ StopReconnectTimer
    \/ PollLoopTest
    \/ \E fresh \in BOOLEAN : PollResponse(fresh)
    \/ StopSignal
    \/ FlushDone
    \/ GraceTimer

SpecStop == InitStop /\ [][NextStop]_vars

\* timers fire and the loops go on; an upload awaited by the flush need
\* not answer
SpecStopLive ==
    /\ SpecStop
    /\ WF_vars(GraceTimer)
    /\ WF_vars(StopReconnectTimer)
    /\ WF_vars(PollLoopTest)

\* the keys the step has accepted
acceptedInStep == {insertLog'[i] : i \in (Len(insertLog) + 1)..Len(insertLog')}

\* a poll response was handled in the step
polled(b) == RestPollBatch(b) \/ EthPollBatch(b) \/ DualPollBatch(b)

\* C33: every trade of a poll response whose dedup key was not seen is
\* accepted, whatever its timestamp: the last-seen-timestamp filter discards
\* no unseen trade.
C33_UnseenTradeAccepted ==
    [][\A b \in Batches :
          polled(b) => \A k \in Range(b) : k \notin seenSet => k \in acceptedInStep]_vars

\* C33 for the trades the timestamp filters let pass: newer than the last
\* accepted timestamp, or as old as it where the filter is `>=`
C33_UnseenNewerTradeAccepted ==
    [][\A b \in Batches :
          polled(b) =>
              \A k \in Range(b) :
                  (/\ k \notin seenSet
                   /\ impl = "rest_unified" => TradeTs(k) >= lastTs
                   /\ impl = "dual_poll" =>
                          \A j \in Range(b) : j # k => TradeTs(j) < TradeTs(k)
                   /\ impl = "dual_poll" => TradeTs(k) > lastTs)
                  => k \in acceptedInStep]_vars

InitChain ==
    /\ impl \in ChainImpls
    /\ InitDedupVars
    /\ InitMergeVars
    /\ slug = "eth-window"
    /\ InitConnVars
    /\ InitPromoVars
    /\ r2Configured = TRUE
    /\ InitWriterVars
    /\ InitFetchVars
    /\ InitProcVars
    /\ InitPersistVars
    /\ InitStopVars
    /\ InitChainVars
    /\ unified = TRUE

NextChain ==
    \/ NewBlock
    \/ TickStart
    \/ \E i \in 1..MaxTicks, ok \in BOOLEAN : BlockFetched(i, ok)

SpecChain == InitChain /\ [][NextChain]_vars

----------------------------------------------------------------------------
(* Merge engine properties *)

\* two spellings of one transaction hash
SameTransaction(a, b) ==
    \/ a = b
    \/ {a, b} = {"0xabc", "0xABC"}
    \/ {a, b} = {"0xdef", "0xDEF"}

\* the times of a list of events or snapshots, in list order
timesOf(list) == [i \in 1..Len(list) |-> list[i].t]

\* the records of the written file for the trade at 1000 s
tradeAt1000 == {i \in 1..Len(mergedFile) : mergedFile[i].timestampMs = 1000000}

C3_RemergeIdentical ==
    [][(mergedOver = Len(eventsLog) /\ eventsLog' = eventsLog) => mergedFile' = mergedFile]_vars

\* C3 for the summary-building merger alone
C3_RemergeIdenticalSummary ==
    [][(impl = "merge_summary" /\ mergedOver = Len(eventsLog) /\ eventsLog' = eventsLog)
           => mergedFile' = mergedFile]_vars

\* C4: a trade at 1000 s whose log holds the single snapshot at 1020 s: the
\* fallback path of the summary-building merger activates and the record's
\* snapshot list holds the snapshot at 1020 s.
C4_FallbackCollects ==
    (/\ impl = "merge_summary"
     /\ mergedOver = Len(eventsLog)
     /\ timesOf(marketEventsOf(eventsLog)) = <<1020000>>)
    => /\ tradeAt1000 # {}
       /\ fallbackActivates(marketEventsOf(eventsLog), 1000000)
       /\ \A i \in tradeAt1000 :
              /\ mergedFile[i].marketEvents.present
              /\ \E j \in 1..Len(mergedFile[i].marketEvents.list) :
                     mergedFile[i].marketEvents.list[j].t = 1020000

\* C5: a trade at 1000 s with snapshots at 997, 999, 1002 and 2000 s in the log:
\* the record's raw window list is exactly 997, 999, 1002 in this order.
C5_WindowList ==
    (/\ mergedOver = Len(eventsLog)
     /\ timesOf(marketEventsOf(eventsLog)) = <<997000, 999000, 1002000, 2000000>>)
    => /\ tradeAt1000 # {}
       /\ \A i \in tradeAt1000 :
              /\ mergedFile[i].marketEvents.present
              /\ timesOf(mergedFile[i].marketEvents.list) = <<997000, 999000, 1002000>>

\* C5 for the summary-building merger alone
C5_WindowListSummary == impl = "merge_summary" => C5_WindowList

\* C5 for a merged file written by a merger that has not been restarted
C5_WindowListFirstProcess == restarts = 0 => C5_WindowList

----------------------------------------------------------------------------
(* Connection lifecycle properties *)

\* the delay claimed before the i-th consecutive reconnect attempt, ms
ClaimedDelay(i) == IF i <= 5 THEN <<1000, 2000, 4000, 8000, 16000>>[i] ELSE 30000

\* C7: the delays before successive reconnect attempts, with no successful
\* connection in between, are 1, 2, 4, 8, 16, 30, 30, ... seconds and never
\* exceed 30 s.
C7_BackoffSequence ==
    \A i \in 1..Len(delays) : delays[i] = ClaimedDelay(i) /\ delays[i] <= 30000

\* C7 for the connectors other than the Ethereum 1h collector's
C7_BackoffSequenceOuterCounter == impl # "eth_conn" => C7_BackoffSequence

\* C8: the registry of subscribed topics never loses a topic, and when a new
\* connection opens a subscribe frame is sent on it for every topic that was
\* registered when the previous connection closed.
C8_ResubscribeOnConnect ==
    [][/\ subscribed \subseteq subscribed'
       /\ (sock # "open" /\ sock' = "open") => subscribedAtClose' \subseteq sentOnConn']_vars

\* C8 for the connectors other than the Ethereum 1h collector's
C8_ResubscribeOnConnectOthers ==
    [][impl # "eth_conn" =>
          /\ subscribed \subseteq subscribed'
          /\ (sock # "open" /\ sock' = "open") => subscribedAtClose' \subseteq sentOnConn']_vars

\* C9: a connection found silent for longer than the liveness timeout when the
\* keepalive interval ends is not left open.
C9_SilentConnectionClosed == sock = "open" => silence <= PONG_TIMEOUT_MS

\* C9 for connectMarketWs alone
C9_SilentConnectionClosedMarketWs == impl = "market_conn" => C9_SilentConnectionClosed


\* the connection is gone: its close handler has run
disconnected == sock \in {"waiting", "closed"}

\* C16: while the process is not shutting down, a connection whose close
\* handler has run is eventually followed by a new connection attempt.
C16_DisconnectRetried ==
    (disconnected /\ shouldRun) ~> (sock = "connecting" \/ ~shouldRun)

\* C16 for the connectors that set a reconnect timer in their close handler.
C16_DisconnectRetriedWithTimer ==
    (impl # "script_conn" /\ disconnected /\ shouldRun) ~> (sock = "connecting" \/ ~shouldRun)

\* the step schedules a reconnect
reconnectScheduled == sock # "waiting" /\ sock' = "waiting"

\* C14: once the user feed has reported an authentication failure on a
\* connection, the connector schedules no reconnect for it.
C14_NoReconnectAfterAuthFailure ==
    [][authReported => ~reconnectScheduled]_vars

\* C14, the report alone: the authentication failure is reported while the
\* rejected connection is still the current one.
C14_AuthFailureReported ==
    authReported => (impl = "user_conn" /\ sock \in {"open", "closing", "waiting", "stopped"})

----------------------------------------------------------------------------
(* Properties of the inactivity promotion *)

\* the promotion check that has just run found s idle for the threshold or
\* longer while another tracked market was not
dueForPromotion(s) ==
    /\ s \in inactiveSlugs(slugLastActivity, now)
    /\ activeSlugs(slugLastActivity) \ inactiveSlugs(slugLastActivity, now) # {}

\* the step completes the promotion of s: the collector forgets the market
promotionCompletes(s) == slugLastActivity[s] # NoNum /\ slugLastActivity'[s] = NoNum

\* C10: when a market has been idle for longer than five minutes and another
\* market is active, the next promotion check takes it up, and its promotion
\* uploads the market's log, merged-record file and price-history file and
\* leaves none of its local files behind.
C10_PromotionUploadsArtifacts ==
    [][\A s \in PromoSlugs :
          /\ (lastCheckAt' # lastCheckAt /\ dueForPromotion(s)) => s \in Range(Last(checks').queue)
          /\ promotionCompletes(s) =>
                (Artifacts \subseteq remoteFiles'[s] /\ localFiles'[s] = {})]_vars

\* C10 for the log alone: the check takes the idle market up, and its
\* promotion uploads the log and removes the local copy.
C10_PromotionUploadsLog ==
    [][\A s \in PromoSlugs :
          /\ (lastCheckAt' # lastCheckAt /\ dueForPromotion(s)) => s \in Range(Last(checks').queue)
          /\ promotionCompletes(s) =>
                ("log" \in remoteFiles'[s] /\ "log" \notin localFiles'[s])]_vars

\* a market idle for 301 seconds has been promoted while another is tracked
C10_PromotedAfter301s ==
    \E s \in PromoSlugs :
        /\ "log" \in remoteFiles[s]
        /\ slugLastActivity[s] = NoNum
        /\ lastCheckAt = 360000
        /\ \E o \in PromoSlugs : slugLastActivity[o] > 59000

\* s has been promoted and has received no event since
promoted(s) == promotedAt[s] # NoNum

\* the checks the step has started
startedChecks == {k \in 1..Len(checks') : k > Len(checks)}

\* C11: a promotion check that runs after a market was promoted, with no
\* event for the market since, does not take the market up again: it starts
\* no upload for it.
C11_NoReuploadAfterPromotion ==
    [][\A s \in PromoSlugs :
          (promoted(s) /\ lastCheckAt' # lastCheckAt) =>
              \A k \in startedChecks : s \notin Range(checks'[k].queue)]_vars

\* a check has run after the promotion of s, and s is still forgotten
C11_Witness ==
    \E s \in PromoSlugs :
        /\ promoted(s)
        /\ "log" \in remoteFiles[s]
        /\ "log" \notin localFiles[s]
        /\ lastCheckAt > promotedAt[s]

\* every event the collector holds for s, in a buffer or in the local log,
\* is in the uploaded log
allUploaded(s) ==
    Range(slugEventBuffers[s]) \cup Range(localLog[s]) \subseteq Range(remoteLog[s])

\* C13: when the collector has exited after a shutdown signal, with R2
\* configured, no market has events left in a buffer and every market's
\* local events are in its uploaded log, whether the market was active or not.
C13_ShutdownUploadsAll ==
    (exited /\ r2Configured) =>
        \A s \in PromoSlugs : slugEventBuffers[s] = <<>> /\ allUploaded(s)

\* C13, the flush alone: after the exit no event is left in a buffer.
C13_ShutdownFlushesAll ==
    exited => \A s \in PromoSlugs : slugEventBuffers[s] = <<>>

\* the first sequence is the beginning of the second
isPrefix(head, whole) ==
    /\ Len(head) <= Len(whole)
    /\ SubSeq(whole, 1, Len(head)) = head

\* C17: the log lists the events in the order in which they were accepted: a
\* step that writes a market's log leaves the events already written where
\* they are, and the events accepted since go behind them.
C17_LogInAcceptanceOrder ==
    [][\A s \in PromoSlugs :
          localLog'[s] # <<>> => isPrefix(localLog[s], localLog'[s])]_vars

\* C17, what the flush keeps instead: the log is ordered by receivedAtMs.
C17_LogOrderedByReceivedAt ==
    \A s \in PromoSlugs : \A i, j \in 1..Len(localLog[s]) :
        i < j => localLog[s][i].at <= localLog[s][j].at

\* how long the oldest event of the slug's buffer has been waiting
bufferAge(s) == IF bufferedSince[s] = NoNum THEN 0 ELSE now - bufferedSince[s]

----------------------------------------------------------------------------
(* Properties of the JSONL writer *)

\* the step is the return of a failed uploadToR2 call for s
writerUploadFailed(s) ==
    /\ Len(uploadLog') > Len(uploadLog)
    /\ Last(uploadLog').slug = s
    /\ ~Last(uploadLog').ok

\* another upload of s is due: its timer is set, or it is among the active
\* slugs that are uploaded when they end
writerRetryPending(s) == completedSlugs[s] # NoNum \/ s \in writerActiveSlugs

\* C12: when an upload fails, the slug's local file is kept as it is and
\* another upload of the slug is due.
C12_FailedUploadRetried ==
    [][\A s \in WriterSlugs :
          writerUploadFailed(s) => (eventsFile'[s] = eventsFile[s] /\ writerRetryPending(s)')]_vars

\* C12, the local copy alone: a failed upload leaves the slug's file as it is.
C12_FailedUploadKeepsFile ==
    [][\A s \in WriterSlugs : writerUploadFailed(s) => eventsFile'[s] = eventsFile[s]]_vars

\* the step is the return of a failed uploadToR2 call of a promotion check for s
checkUploadFailed(s) ==
    /\ slugLastActivity[s] # NoNum
    /\ promotedAt'[s] = promotedAt[s]
    /\ \E k \in 1..Len(checks) :
          /\ checks[k].uploading
          /\ Head(checks[k].queue) = s
          /\ checks' = checkAdvanced(checks, k)

\* C12 for the Ethereum 1h collector: a failed upload leaves the log and the
\* slug's last activity as they are, so the next check finds the slug
\* inactive again.
C12_FailedUploadRetriedByCheck ==
    [][\A s \in PromoSlugs :
          checkUploadFailed(s) =>
              /\ localLog'[s] = localLog[s]
              /\ localFiles'[s] = localFiles[s]
              /\ slugLastActivity'[s] = slugLastActivity[s]]_vars

\* the step is the slug's timer firing and starting the upload of its file
timerUploads(s) ==
    /\ completedSlugs[s] # NoNum
    /\ completedSlugs'[s] = NoNum
    /\ Len(inflight') = Len(inflight) + 1
    /\ Last(inflight').slug = s

\* C20: the upload of a slug's file starts only when the slug has had no
\* write for the full end delay.
C20_UploadOnlyAfterQuietDelay ==
    [][\A s \in WriterSlugs :
          timerUploads(s) => wClock - lastWriteAt[s] >= SLUG_END_DELAY_MS]_vars

\* C20, the cancellation alone: after a write to a slug no upload is
\* scheduled for that slug.
C20_WriteCancelsScheduledUpload ==
    [][\A s \in WriterSlugs :
          (written' = written + 1 /\ currentSlug' = s) => completedSlugs'[s] = NoNum]_vars

\* C20 for a slug that is not written again once the writer has left it.
C20_UploadAfterDelayIfNotWrittenAgain ==
    [][\A s \in WriterSlugs :
          (timerUploads(s) /\ s \notin writerActiveSlugs) =>
              wClock - lastWriteAt[s] >= SLUG_END_DELAY_MS]_vars

\* C21: when a slug's local events file is deleted after an upload, every
\* event the file held at that moment is in the uploaded object.
C21_DeletedFileWasUploaded ==
    [][\A s \in WriterSlugs :
          (eventsFile[s] # <<>> /\ eventsFile'[s] = <<>>) =>
              Range(eventsFile[s]) \subseteq Range(r2Objects'[s])]_vars

\* C21 for the Ethereum 1h collector: the log deleted after a promotion was
\* uploaded whole.
C21_DeletedLogWasUploaded ==
    [][\A s \in PromoSlugs :
          (localLog[s] # <<>> /\ localLog'[s] = <<>>) =>
              Range(localLog[s]) \subseteq Range(remoteLog'[s])]_vars

----------------------------------------------------------------------------
(* Properties of the fetch retries *)

\* C15: a request answered with HTTP 429 is followed by a sleep of its own
\* ramp (unless it was the last attempt), and every such sleep is longer
\* than the sleep the same attempt takes after a network error.
C15_RateLimitRampLonger ==
    /\ \A i \in 1..Len(backoffLog) :
          backoffLog[i].kind = "rate_limit" =>
              backoffLog[i].delay > networkDelay(backoffLog[i].attempt)
    /\ (fetchError = "rate_limit" /\ fetchAttempt < maxRetries) => fetchPhase = "sleep"

\* C15 for fetchTrades of the unified collector.
C15_RateLimitRampLongerUnified ==
    impl = "fetch_unified" => C15_RateLimitRampLonger

----------------------------------------------------------------------------
(* Properties of the process lifetime *)

\* C19: the process has exited with a nonzero status only if it was still
\* starting and its startup configuration was invalid.
C19_NonzeroExitOnlyForConfig ==
    (procPhase = "exited" /\ exitCode # 0) =>
        (exitedFrom = "starting" /\ configChecked = "invalid")

\* C19 for the three mains, the startup script left aside.
C19_MainsExitOnlyForConfig ==
    impl # "fly_startup" => C19_NonzeroExitOnlyForConfig

----------------------------------------------------------------------------
(* Properties of the persisted dedup state *)

\* C23: after a restart the store of every connector holds every key the
\* connector accepted before the restart, so the key is rejected again.
C23_AcceptedKeysSurviveRestart ==
    run > 1 => \A c \in PersistConns : acceptedBefore[c] \subseteq connState[c]

\* the connectors that accepted a key in the first run
acceptors == {c \in PersistConns : acceptedBefore[c] # {}}

\* C23 for a process in which one connector with a state object accepted
\* keys, with R2 configured.
C23_LoneConnectorSurvivesRestart ==
    (run > 1 /\ r2Configured /\ Cardinality(acceptors) = 1) =>
        \A c \in acceptors : hasState(c) => acceptedBefore[c] \subseteq connState[c]

----------------------------------------------------------------------------
(* Market context properties *)

\* C25: a merged record carries the raw snapshot list only if fewer snapshots
\* than the cap were collected for it; with the cap or more only the
\* aggregates are kept.
C25_RawListBelowCap ==
    \A i \in 1..Len(mergedFile) :
        mergedFile[i].marketEvents.present =>
            /\ mergedFile[i].marketSummary # NoSummary
            /\ mergedFile[i].marketSummary[1].eventCount < MAX_RAW_EVENTS_PER_TRADE

\* C25 with the comparison of the code: the list is kept up to the cap
C25_RawListUpToCap ==
    \A i \in 1..Len(mergedFile) :
        mergedFile[i].marketSummary # NoSummary =>
            (mergedFile[i].marketEvents.present <=>
                 mergedFile[i].marketSummary[1].eventCount <= MAX_RAW_EVENTS_PER_TRADE)

\* no snapshot of the log lies within the clamp of the widened window around
\* the trade: the primary window and the widened window are both empty
noSnapshotNear(tradeTime) ==
    \A i \in 1..Len(eventsLog) :
        eventsLog[i].src = "market_ws" => Abs(eventsLog[i].t - tradeTime) > FALLBACK_CLAMP_MS

\* C26: every trade of the log is in the merged output written over it, and a
\* record whose primary and widened windows are both empty carries no summary
\* and no snapshot list.
C26_TradeWithoutSnapshotsMerged ==
    /\ mergedOver = Len(eventsLog) =>
           \A j \in 1..Len(eventsLog) :
               (eventsLog[j].src = "rest_poll" /\ eventsLog[j].tx # "") =>
                   \E i \in 1..Len(mergedFile) :
                       toLowerCase(mergedFile[i].tx) = toLowerCase(eventsLog[j].tx)
    /\ \A i \in 1..Len(mergedFile) :
           noSnapshotNear(mergedFile[i].timestampMs) =>
               /\ mergedFile[i].marketSummary = NoSummary
               /\ mergedFile[i].marketEvents = NoRawEvents

\* C26 witness: a trade was merged from a log whose snapshots are all out of reach
C26_Witness ==
    /\ mergedFile # <<>>
    /\ mergedOver = Len(eventsLog)
    /\ marketEventsOf(eventsLog) # <<>>
    /\ noSnapshotNear(mergedFile[1].timestampMs)
    /\ mergedFile[1].marketSummary = NoSummary

\* the summaries whose groups cannot have been cut to the last or first N
uncutSummaries ==
    {i \in 1..Len(mergedFile) :
        /\ mergedFile[i].marketSummary # NoSummary
        /\ mergedFile[i].marketSummary[1].eventCount <= SNAPSHOTS_BEFORE_TRADE
        /\ mergedFile[i].marketSummary[1].eventCount <= SNAPSHOTS_AFTER_TRADE}

\* every snapshot of a group lies on the group's side of the trade
groupsOnTheirSide(i) ==
    LET sum == mergedFile[i].marketSummary[1]
        tradeTime == mergedFile[i].timestampMs
    IN  /\ \A k \in 1..Len(sum.beforeTrade) : sum.beforeTrade[k].t < tradeTime
        /\ \A k \in 1..Len(sum.atTrade) : sum.atTrade[k].t = tradeTime
        /\ \A k \in 1..Len(sum.afterTrade) : sum.afterTrade[k].t > tradeTime

groupedCount(i) ==
    LET sum == mergedFile[i].marketSummary[1]
    IN  Len(sum.beforeTrade) + Len(sum.atTrade) + Len(sum.afterTrade)

\* C27: the collected snapshots of a trade are split into those before, at
\* and after the trade, and each collected snapshot is in exactly one of the
\* three groups: the groups lie on their sides and together hold as many
\* snapshots as were collected.
C27_SnapshotsPartitioned ==
    \A i \in uncutSummaries :
        /\ groupsOnTheirSide(i)
        /\ groupedCount(i) = mergedFile[i].marketSummary[1].eventCount

\* C27 without the count: no snapshot is in two groups, and the only
\* snapshots in no group are earlier ones at the very time of the trade
C27_SnapshotsInAtMostOneGroup ==
    \A i \in uncutSummaries :
        /\ groupsOnTheirSide(i)
        /\ groupedCount(i) <= mergedFile[i].marketSummary[1].eventCount
        /\ Len(eventsInWindow(eventsLog, mergedFile[i].timestampMs,
                               mergedFile[i].timestampMs)) <= 1
              => groupedCount(i) = mergedFile[i].marketSummary[1].eventCount

\* position of the lower-case hashes of the model in lexicographic order
txRank(tx) == IF toLowerCase(tx) = "0xabc" THEN 1 ELSE 2

\* C28: the merged trades are written in ascending order of trade time, and
\* trades with the same trade time in lexicographic order of their hashes,
\* wherever they stand in the log.
C28_MergedInTimeThenTxOrder ==
    \A i, j \in 1..Len(mergedFile) :
        i < j =>
            \/ mergedFile[i].timestampMs < mergedFile[j].timestampMs
            \/ /\ mergedFile[i].timestampMs = mergedFile[j].timestampMs
               /\ txRank(mergedFile[i].tx) < txRank(mergedFile[j].tx)

\* C28 without the tie-break: ascending order of trade time
C28_MergedInTimeOrder ==
    \A i, j \in 1..Len(mergedFile) :
        i < j => mergedFile[i].timestampMs <= mergedFile[j].timestampMs

----------------------------------------------------------------------------
(* Properties of the persisted log *)

\* C29: the log of a market only grows: every event in the file before a
\* flush is in the file after it, also when the existing file cannot be read.
C29_LogOnlyGrows ==
    [][\A s \in PromoSlugs : Range(localLog[s]) \subseteq Range(localLog'[s])]_vars

\* C29 as the code has it: a flush keeps every event of the file, or it
\* could not read the file and writes the buffer alone
C29_LogGrowsOrIsRewrittenFromBuffer ==
    [][\A s \in PromoSlugs :
          \/ Range(localLog[s]) \subseteq Range(localLog'[s])
          \/ /\ localLog[s] # <<>>
             /\ Range(localLog'[s]) \cap Range(localLog[s]) = {}
             /\ slugEventBuffers'[s] = <<>>]_vars

----------------------------------------------------------------------------
(* Failure isolation properties *)

\* C30: when a component fails for good, the others keep running: the exit
\* of one child of the startup script leaves the other child, if it was
\* running, running.
C30_FailureLeavesOthersRunning ==
    [][\A failed, other \in Children :
          (/\ failed # other
           /\ children[failed] # "exited"
           /\ children'[failed] = "exited"
           /\ children[other] = "running") => children'[other] = "running"]_vars

\* C30 for the exit of the collector: the merge engine is not signalled
C30_CollectorExitLeavesMergerRunning ==
    [][(/\ children["collector"] # "exited"
        /\ children'["collector"] = "exited"
        /\ children["merger"] = "running") => children'["merger"] = "running"]_vars

----------------------------------------------------------------------------
(* Shutdown properties *)

\* C31: once the shutdown signal was received the stop flag is set, and from
\* then on no event is accepted, no poll is started and no reconnect is
\* scheduled.
C31_NoNewWorkAfterSignal ==
    [][stopSignalled =>
          /\ shutdownPc # "exited" => ~shouldRun
          /\ acceptedEvents' = acceptedEvents
          /\ pollsStarted' = pollsStarted
          /\ reconnectsScheduled' = reconnectsScheduled]_vars

\* C31 for polls and reconnects in the collectors that have the flag
C31_NoNewPollOrReconnectAfterSignal ==
    [][(stopSignalled /\ impl \in FlagImpls) =>
          /\ ~shouldRun
          /\ pollsStarted' = pollsStarted
          /\ reconnectsScheduled' = reconnectsScheduled]_vars

\* C32: after a shutdown signal the process terminates, also when an upload
\* awaited by the shutdown never answers.
C32_TerminatesAfterSignal == stopSignalled ~> (shutdownPc = "exited")

\* C32 for the collector once the flush of its writer has returned
C32_TerminatesAfterFlush ==
    (impl = "collector_stop" /\ shutdownPc = "grace") ~> (shutdownPc = "exited")

\* C32 for the Ethereum 1h collector
C32_EthCollectorTerminates ==
    (impl = "eth_stop" /\ stopSignalled) ~> (shutdownPc = "exited")

\* C35: every event appended to the market's events log is eventually
\* included in a merge pass, also after promotion removed the log: as long
\* as the log holds an event no pass has read, the next pass reads the log.
C35_UnreadEventDueForPass == Range(eventsLog) \ passed # {} => fileToProcess

\* C35 as a liveness property of the watch loop
C35_AppendedEventMerged ==
    \A i \in 1..Len(Feeds[PromotedSlug]) :
        (Feeds[PromotedSlug][i] \in Range(eventsLog)) ~> (Feeds[PromotedSlug][i] \in passed)

\* C35 for a log that has more lines than the merger counted before: its
\* events are included in a pass unless promotion removes the log first
C35_AppendedToLongerLogMerged ==
    \A i \in 1..Len(Feeds[PromotedSlug]) :
        (Feeds[PromotedSlug][i] \in Range(eventsLog) /\ Len(eventsLog) > lastLineCount)
            ~> (Feeds[PromotedSlug][i] \in passed \/ eventsLog = <<>>)

\* C38: a merged result queued in pendingMerges stays queued until it was
\* written: it leaves the queue of a running merger only in a step that
\* writes a result merged over at least as many log lines.
C38_PendingKeptUntilWritten ==
    [][(pendingMerges # <<>> /\ pendingMerges' = <<>> /\ restarts' = restarts)
          => mergedOver' >= pendingMerges[1].over]_vars

\* C38 the other way round: a write empties the queue
C38_WriteEmptiesPending == [][mergedOver' # mergedOver => pendingMerges' = <<>>]_vars

\* C39: when the merger receives SIGINT or SIGTERM, every merged result
\* still queued in pendingMerges is written to disk before the process exits.
C39_PendingWrittenBeforeExit ==
    [][(shutdownPc = "running" /\ shutdownPc' = "exited" /\ pendingMerges # <<>>)
          => mergedOver' >= pendingMerges[1].over]_vars

\* C39 for an empty queue: the exit leaves the merged file as it is
C39_ExitLeavesMergedFile ==
    [][(shutdownPc = "running" /\ shutdownPc' = "exited") => mergedFile' = mergedFile]_vars

----------------------------------------------------------------------------
(* Connector ownership properties *)

C36_DisconnectClosesSocket ==
    [][(impl = "fast_conn" /\ ~stopSignalled /\ stopSignalled' /\ sock \in {"connecting", "open"})
          => sock' = "closing"]_vars

\* C37: a connector has at most one open or connecting socket and at most
\* one pending reconnect timer, and every disconnect of a connector that was
\* not told to stop schedules exactly one reconnect.
C37_OneSocketOneReconnect ==
    /\ [](liveSockets <= 1 /\ pendingTimers <= 1)
    /\ [][(liveSockets' < liveSockets /\ shouldRun) => pendingTimers' = pendingTimers + 1]_vars

\* C37, the bound alone: one socket or one timer, never both
C37_AtMostOneSocketOrTimer ==
    /\ liveSockets \in {0, 1}
    /\ pendingTimers \in {0, 1}
    /\ liveSockets + pendingTimers <= 1

\* C37 for the connectors that reconnect at all
C37_ReconnectingConnectorsScheduleOne ==
    [][(impl # "script_conn" /\ liveSockets' < liveSockets /\ shouldRun)
          => pendingTimers' = pendingTimers + 1]_vars

----------------------------------------------------------------------------
(* On-chain monitor properties *)

\* C34: every block after the starting block is scanned exactly once: no
\* block up to `last` was skipped and no block was scanned twice.
C34_BlocksScannedOnce ==
    /\ \A b \in Blocks : scanned[b] <= 1
    /\ \A b \in Blocks : b <= lastBlock => scanned[b] = 1

\* C34 without "at most once": no block up to `last` was skipped
C34_NoBlockSkipped == \A b \in Blocks : b <= lastBlock => scanned[b] >= 1

====
